---- MODULE Spec2Model ----
(***************************************************************************)
(* Elephan-Code: the plan state tracker (PlanTodoManager) and the          *)
(* orchestrator core (Agent.step / Agent.run with its model interface and  *)
(* tool boundary), as state machines.                                      *)
(***************************************************************************)
EXTENDS Integers, Sequences, FiniteSets, TLC

(***************************************************************************)
(* Bounds of the model.                                                    *)
(***************************************************************************)
\* Largest number of steps of a plan; step ids are 1..MaxPlanSteps.
MaxPlanSteps == 2
\* Longest dependency list of a step.
MaxDeps == 2

\* Agent.max_steps: the step budget of Agent.run.
MaxSteps == 2
\* Agent.max_memory_messages: the message-count ceiling of the history.
MaxMemoryMessages == 3
\* Agent.context_window_tokens: the token budget of the history.
ContextWindowTokens == 2
\* Agent.max_parallel_tools: the worker cap of parallel dispatch.
MaxParallelTools == 2
\* Longest "actions" list of a model turn.
MaxActions == 3
\* Longest raw model output, in lexical tokens.
MaxRawTokens == 2
\* Longest history the truncation is started from (SpecTrunc).
MaxHistory == 5
\* _estimate_tokens: len(text) // 4
CharsPerToken == 4

VARIABLES
    \* ---- plan state tracker (PlanTodoManager) ----
    plan,            \* Plan.steps: sequence of [step_id, dependencies]
    steps_progress,  \* PlanProgress.steps_progress: step_id -> StepProgress
    tracker_ret,     \* what the last tracker operation returned
    \* ---- orchestrator core (Agent) ----
    cfg,             \* enable_parallel; whether observers and a recorder are set
    memory,          \* Agent.memory: sequence of messages
    appended,        \* every message appended to memory since construction
    pc,              \* where run()/step() stands
    steps_done,      \* iterations of run()'s loop begun
    total_tokens,    \* _truncate_memory's local total_tokens
    llm_in,          \* what the model interface met in the last ask()
    turn,            \* response_data of the current step()
    actions,         \* the action list being dispatched
    dispatch,        \* "none" | "sequential" | "parallel" for the current step()
    futures,         \* parallel dispatch: each submitted worker's state
    results,         \* parallel dispatch: the results dict, in insertion order
    observations,    \* the segments returned by the dispatch
    step_ret,        \* what the last step() did: "none" | "true" | "false" | "raised"
    tool_calls,      \* the tool-boundary calls of the current step()
    model_calls,     \* number of llm.ask calls so far
    \* ---- Build strategy (BuildMode) ----
    build_pc,           \* where BuildMode.run stands
    build_max_steps,    \* run's max_steps argument
    build_index,        \* position in plan.steps of the step being handled
    total_agent_steps,  \* run's local total_agent_steps
    steps_used,         \* _execute_step's local steps_used
    max_for_step,       \* _execute_step's local max_for_step
    is_running,         \* BuildMode.is_running
    build_result,       \* what run returned: <<>> or <<result>>
    handled,            \* per plan step handled so far: was it started, and
                        \* the step() invocations made for it
    \* ---- Decider (PlanDecider) and Plan Generator (PlanGenerator) ----
    decider_response,   \* what llm.ask gave should_plan
    decider_out,        \* what should_plan did: <<>> or <<outcome>>
    gen_response,       \* what llm.plan_ask gave generate
    gen_out,            \* what generate did: <<>> or <<outcome>>
    \* ---- Standard strategy (StandardMode) ----
    std_pc,             \* where StandardMode.run stands
    std_max_steps,      \* run's max_steps argument
    steps_taken,        \* run's local steps_taken
    std_running,        \* StandardMode.is_running
    std_result,         \* what run returned: <<>> or <<result>>
    \* ---- Auto strategy (AutoMode) ----
    auto_pc,            \* where AutoMode.run stands
    auto_max_steps,     \* run's max_steps argument
    auto_running,       \* AutoMode.is_running
    calls,              \* how often run has called each of its collaborators
    last_decision,      \* AutoMode.last_decision: <<>> (None) or <<decision>>
    last_plan,          \* AutoMode.last_plan: <<>> (None) or <<plan>>
    build_arg,          \* the plan handed to BuildMode.run: <<>> or <<plan>>
    auto_result,        \* what run returned: <<>> or <<result>>
    \* ---- Trajectory recorder (TrajectoryRecorder) and its caller ----
    rec_cfg,            \* the recorder's filename (given or not) and fmt
    rec_started,        \* TrajectoryRecorder._started
    rec_step,           \* TrajectoryRecorder._step
    rec_task,           \* TrajectoryRecorder._task: <<>> (not set) or <<task>>
    rec_events,         \* TrajectoryRecorder._events
    files,              \* the files of save_dir: name -> content
    now,                \* the clock, in seconds
    drv_pc,             \* the recorder call the caller makes next
    session,            \* the calls of the caller's session, from its start(task) on
    written,            \* the file names written to in that session
    sessions            \* sessions begun

trackerVars == <<plan, steps_progress, tracker_ret>>

agentVars == <<cfg, memory, appended, pc, steps_done, total_tokens, llm_in, turn,
               actions, dispatch, futures, results, observations, step_ret,
               tool_calls, model_calls>>

buildVars == <<build_pc, build_max_steps, build_index, total_agent_steps, steps_used,
               max_for_step, is_running, build_result, handled>>

deciderVars == <<decider_response, decider_out>>

generatorVars == <<gen_response, gen_out>>

standardVars == <<std_pc, std_max_steps, steps_taken, std_running, std_result>>

autoVars == <<auto_pc, auto_max_steps, auto_running, calls, last_decision, last_plan,
              build_arg, auto_result>>

recorderVars == <<rec_cfg, rec_started, rec_step, rec_task, rec_events, files, now,
                  drv_pc, session, written, sessions>>

\* The variables of the strategies above the orchestrator core, and of the
\* recorder.
strategyVars == <<buildVars, deciderVars, generatorVars, standardVars, autoVars,
                  recorderVars>>

vars == <<plan, steps_progress, tracker_ret, cfg, memory, appended, pc, steps_done,
          total_tokens, llm_in, turn, actions, dispatch, futures, results,
          observations, step_ret, tool_calls, model_calls,
          build_pc, build_max_steps, build_index, total_agent_steps, steps_used,
          max_for_step, is_running, build_result, handled,
          decider_response, decider_out, gen_response, gen_out,
          std_pc, std_max_steps, steps_taken, std_running, std_result,
          auto_pc, auto_max_steps, auto_running, calls, last_decision, last_plan,
          build_arg, auto_result,
          rec_cfg, rec_started, rec_step, rec_task, rec_events, files, now,
          drv_pc, session, written, sessions>>

(***************************************************************************)
(* Plan data (plan_mode.py) and StepStatus (plan_structures.py).           *)
(***************************************************************************)
NOT_STARTED == "not-started"
IN_PROGRESS == "in-progress"
COMPLETED == "completed"
FAILED == "failed"
SKIPPED == "skipped"
BLOCKED == "blocked"

StepStatus == {NOT_STARTED, IN_PROGRESS, COMPLETED, FAILED, SKIPPED, BLOCKED}

StepIds == 1..MaxPlanSteps
\* A dependency id may name a step that is not in the plan.
DepIds == 1..(MaxPlanSteps + 1)
\* An id no plan of the model uses (an unknown step_id argument).
UnknownStepId == MaxPlanSteps + 1

SeqsUpTo(S, n) == UNION {[1..k -> S] : k \in 0..n}

\* Step(step_id, dependencies); the other fields do not reach the tracker's
\* status logic.
Step == [step_id : StepIds, dependencies : SeqsUpTo(DepIds, MaxDeps)]

\* Plan.steps: the generator does not check ids, so two steps may share one.
Plans == UNION {[1..k -> Step] : k \in 1..MaxPlanSteps}

NoObservation == <<>>

\* Names of the subtasks update_subtask is called with.
SubtaskNames == {"subtask"}

\* StepProgress.subtasks of a new entry: the empty dict.
NoSubtasks == [n \in {} |-> FALSE]

\* StepProgress(step_id, status=NOT_STARTED, observation=None, subtasks={},
\* subtask_completed=0)
StepProgress(id) ==
    [step_id |-> id, status |-> NOT_STARTED, observation |-> NoObservation,
     subtasks |-> NoSubtasks, subtask_completed |-> 0]

\* PlanTodoManager._initialize_steps: one entry per step id (a later step with
\* the same id overwrites the entry of an earlier one, both are NOT_STARTED).
InitializeSteps(p) ==
    [id \in {p[i].step_id : i \in 1..Len(p)} |-> StepProgress(id)]

Known(step_id) == step_id \in DOMAIN steps_progress

\* next((s for s in self.plan.steps if s.step_id == step_id), None)
FirstStepWithId(p, step_id) ==
    LET idxs == {i \in 1..Len(p) : p[i].step_id = step_id}
    IN  p[CHOOSE i \in idxs : \A j \in idxs : i <= j]

\* An update that records the observation and leaves the status as it was.
KeepsStatus(step_id, st, obs) ==
    [steps_progress EXCEPT ![step_id].observation = obs]

SetStatus(step_id, st, obs) ==
    [steps_progress EXCEPT ![step_id].status = st, ![step_id].observation = obs]

\* What the last tracker operation returned.
Ret(r) == [ret |-> r]

\* An unknown id answered with True.
NotFoundReturnsTrue(step_id) ==
    /\ ~Known(step_id)
    /\ tracker_ret' = Ret(TRUE)
    /\ UNCHANGED <<plan, steps_progress>>

\* An operation on an id with no entry: logs, returns False, changes nothing.
NotFound(step_id) ==
    /\ ~Known(step_id)
    /\ tracker_ret' = Ret(FALSE)
    /\ UNCHANGED <<plan, steps_progress>>

start_step(step_id) ==
    \/ NotFound(step_id)
    \/ /\ Known(step_id)
       /\ steps_progress' = [steps_progress EXCEPT ![step_id].status = IN_PROGRESS]
       /\ tracker_ret' = Ret(TRUE)
       /\ UNCHANGED plan

complete_step(step_id) ==
    \/ NotFound(step_id)
    \/ /\ Known(step_id)
       /\ steps_progress' = SetStatus(step_id, COMPLETED, <<"observation">>)
       /\ tracker_ret' = Ret(TRUE)
       /\ UNCHANGED plan

fail_step(step_id) ==
    \/ NotFound(step_id)
    \/ /\ Known(step_id)
       /\ steps_progress' = [steps_progress EXCEPT ![step_id].status = FAILED]
       /\ tracker_ret' = Ret(TRUE)
       /\ UNCHANGED plan

skip_step(step_id) ==
    \/ NotFound(step_id)
    \/ /\ Known(step_id)
       /\ steps_progress' = SetStatus(step_id, SKIPPED, <<"reason">>)
       /\ tracker_ret' = Ret(TRUE)
       /\ UNCHANGED plan

\* The new steps_progress of block_step(step_id, reason) on a known id.
BlockStepEffect(step_id, reason) ==
    SetStatus(step_id, BLOCKED, reason)

\* sp.subtasks[subtask_name] = completed
PutSubtask(subtasks, subtask_name, completed) ==
    [n \in DOMAIN subtasks \cup {subtask_name} |->
        IF n = subtask_name THEN completed ELSE subtasks[n]]

\* sum(1 for v in sp.subtasks.values() if v)
CompletedSubtasks(subtasks) ==
    Cardinality({n \in DOMAIN subtasks : subtasks[n]})

update_subtask(step_id, subtask_name, completed) ==
    \/ NotFound(step_id)
    \/ /\ Known(step_id)
       /\ LET subtasks == PutSubtask(steps_progress[step_id].subtasks,
                                     subtask_name, completed)
          IN  steps_progress' =
                  [steps_progress EXCEPT
                      ![step_id].subtasks = subtasks,
                      ![step_id].subtask_completed = CompletedSubtasks(subtasks)]
       /\ tracker_ret' = Ret(TRUE)
       /\ UNCHANGED plan

block_step(step_id) ==
    \/ NotFound(step_id)
    \/ /\ Known(step_id)
       /\ steps_progress' = BlockStepEffect(step_id, <<"Dependencies not met">>)
       /\ tracker_ret' = Ret(TRUE)
       /\ UNCHANGED plan

\* A check that looks at the last dependency only.
FirstUnmetChecksLastOnly(deps, i) ==
    IF Len(deps) = 0 THEN 0
    ELSE IF ~Known(deps[Len(deps)]) \/ steps_progress[deps[Len(deps)]].status # COMPLETED
         THEN Len(deps)
         ELSE 0

\* The loop of check_dependencies over step.dependencies from position i on:
\* the first dependency with no entry or a status other than COMPLETED, or 0.
RECURSIVE FirstUnmet(_, _)
FirstUnmet(deps, i) ==
    IF i > Len(deps) THEN 0
    ELSE IF ~Known(deps[i]) \/ steps_progress[deps[i]].status # COMPLETED
         THEN i
         ELSE FirstUnmet(deps, i + 1)

\* A check that takes every declared dependency for unmet.
FirstDeclaredIsUnmet(deps) == IF Len(deps) = 0 THEN 0 ELSE 1

\* A check that finds every dependency met.
NoneUnmet(deps) == 0

UnmetDependency(deps) == FirstUnmet(deps, 1)

check_dependencies(step_id) ==
    \/ NotFound(step_id)
    \/ /\ Known(step_id)
       /\ LET step == FirstStepWithId(plan, step_id)
              u == UnmetDependency(step.dependencies)
          IN  IF u # 0
              THEN /\ steps_progress' =
                        BlockStepEffect(step_id, <<"Depends on step", step.dependencies[u]>>)
                   /\ tracker_ret' = Ret(FALSE)
              ELSE /\ tracker_ret' = Ret(TRUE)
                   /\ UNCHANGED steps_progress
       /\ UNCHANGED plan

\* The test of get_overall_progress's sum on one step's status, widened to
\* every status a step can end in.
CountsEveryTerminal(st) == st \in {COMPLETED, FAILED, SKIPPED}

\* sp.status == StepStatus.COMPLETED
CountsAsCompleted(st) == st = COMPLETED

\* sum(1 for sp in self.steps_progress.values() if sp.status == COMPLETED),
\* over the entries with the ids in S.
RECURSIVE SumCompleted(_, _)
SumCompleted(sp, S) ==
    IF S = {} THEN 0
    ELSE LET id == CHOOSE x \in S : TRUE
         IN  (IF CountsAsCompleted(sp[id].status) THEN 1 ELSE 0)
             + SumCompleted(sp, S \ {id})

\* PlanProgress.get_overall_progress on steps_progress sp and total_steps
\* total: (completed / total_steps) * 100, a float; it is kept here in
\* hundredths of a percent (33.33...% is 3333, 100.0% is 10000).
get_overall_progress(sp, total) ==
    IF DOMAIN sp = {} THEN 0
    ELSE (SumCompleted(sp, DOMAIN sp) * 10000) \div total

(***************************************************************************)
(* Orchestrator core: messages and memory truncation (agent.py).           *)
(***************************************************************************)
\* Content lengths, in characters, of the messages the model works with.
MsgLens == {3, 8}

\* A message {role, content}: the content is kept as its serial number (which
\* message it is) and its length (all that _estimate_tokens reads).
Message(role, id, len) == [role |-> role, id |-> id, len |-> len]

SystemMessage == Message("system", 0, 8)

\* Agent._estimate_tokens
EstimateTokens(len) == len \div CharsPerToken

RECURSIVE SumTokens(_)
SumTokens(m) ==
    IF m = <<>> THEN 0 ELSE EstimateTokens(Head(m).len) + SumTokens(Tail(m))

\* list.pop(i) with i counted from 1
RemoveAt(s, i) == SubSeq(s, 1, i - 1) \o SubSeq(s, i + 1, Len(s))

\* A removal of the newest message.
PopsNewest(m) == Len(m)

\* The message _truncate_memory removes: self.memory.pop(1), the second entry.
PopIndex(m) == 2

\* A loop condition without the floor of 2 messages.
TruncateWhileIgnoresFloor(m, total) ==
    Len(m) > MaxMemoryMessages \/ total > ContextWindowTokens

\* The loop condition of _truncate_memory.
TruncateWhile(m, total) ==
    Len(m) > 2 /\ (Len(m) > MaxMemoryMessages \/ total > ContextWindowTokens)

\* Agent.__init__: the history is seeded with the system message.
AgentConstructed(c) ==
    /\ cfg = c
    /\ memory = <<SystemMessage>>
    /\ appended = <<>>
    /\ pc = "idle"
    /\ steps_done = 0
    /\ total_tokens = 0
    /\ llm_in = "none"
    /\ turn = [action |-> <<>>, actions |-> <<>>]
    /\ actions = <<>>
    /\ dispatch = "none"
    /\ futures = <<>>
    /\ results = <<>>
    /\ observations = <<>>
    /\ step_ret = "none"
    /\ tool_calls = <<>>
    /\ model_calls = 0

\* The variables a step() works with besides memory.
stepLocals == <<llm_in, turn, actions, dispatch, futures, results, observations,
                tool_calls, model_calls>>

\* step(), line 88: _truncate_memory() begins; a history of at most 2 messages
\* is returned as it is, otherwise the token total is computed.
TruncateEnter ==
    /\ pc = "step"
    /\ IF Len(memory) <= 2
       THEN /\ pc' = "ask"
            /\ UNCHANGED total_tokens
       ELSE /\ pc' = "truncate"
            /\ total_tokens' = SumTokens(memory)
    /\ UNCHANGED <<cfg, memory, appended, steps_done, step_ret>>
    /\ UNCHANGED stepLocals
    /\ UNCHANGED trackerVars
    /\ UNCHANGED strategyVars

\* One iteration of _truncate_memory's loop.
TruncatePop ==
    /\ pc = "truncate"
    /\ TruncateWhile(memory, total_tokens)
    /\ memory' = RemoveAt(memory, PopIndex(memory))
    /\ total_tokens' = total_tokens - EstimateTokens(memory[PopIndex(memory)].len)
    /\ UNCHANGED <<cfg, appended, pc, steps_done, step_ret>>
    /\ UNCHANGED stepLocals
    /\ UNCHANGED trackerVars
    /\ UNCHANGED strategyVars

\* The loop of _truncate_memory ends.
TruncateDone ==
    /\ pc = "truncate"
    /\ ~TruncateWhile(memory, total_tokens)
    /\ pc' = "ask"
    /\ UNCHANGED <<cfg, memory, appended, steps_done, total_tokens, step_ret>>
    /\ UNCHANGED stepLocals
    /\ UNCHANGED trackerVars
    /\ UNCHANGED strategyVars

\* Histories the truncation can be started from: the system message first,
\* then user and assistant messages of any lengths.
Histories ==
    UNION {
        {<<SystemMessage>> \o [i \in 1..k |-> Message(r[i], i, l[i])] :
            r \in [1..k -> {"user", "assistant"}], l \in [1..k -> MsgLens]}
        : k \in 1..(MaxHistory - 1)}

TrackerUnused ==
    /\ plan = <<>>
    /\ steps_progress = <<>>
    /\ tracker_ret = Ret(TRUE)

\* BuildMode.__init__: no run yet.
BuildConstructed ==
    /\ build_pc = "idle"
    /\ build_max_steps = 0
    /\ build_index = 0
    /\ total_agent_steps = 0
    /\ steps_used = 0
    /\ max_for_step = 0
    /\ is_running = FALSE
    /\ build_result = <<>>
    /\ handled = <<>>

\* No response of the model yet, no call of should_plan or generate.
NoResponse == [kind |-> "none"]

DeciderUnused ==
    /\ decider_response = NoResponse
    /\ decider_out = <<>>

GeneratorUnused ==
    /\ gen_response = NoResponse
    /\ gen_out = <<>>

\* StandardMode.__init__: no run yet.
StandardConstructed ==
    /\ std_pc = "idle"
    /\ std_max_steps = 0
    /\ steps_taken = 0
    /\ std_running = FALSE
    /\ std_result = <<>>

\* The calls AutoMode.run has made so far: none.
NoCalls == [decider |-> 0, generator |-> 0, build |-> 0, standard |-> 0]

\* AutoMode.__init__: no run yet.
AutoConstructed ==
    /\ auto_pc = "idle"
    /\ auto_max_steps = 0
    /\ auto_running = FALSE
    /\ calls = NoCalls
    /\ last_decision = <<>>
    /\ last_plan = <<>>
    /\ build_arg = <<>>
    /\ auto_result = <<>>

\* TrajectoryRecorder.__init__(save_dir, filename, fmt), lines 29-40, with
\* nothing recorded and an empty save_dir.
RecorderConstructed(c) ==
    /\ rec_cfg = c
    /\ rec_started = FALSE
    /\ rec_step = 0
    /\ rec_task = <<>>
    /\ rec_events = <<>>
    /\ files = [n \in {} |-> <<>>]
    /\ now = 0
    /\ drv_pc = "idle"
    /\ session = <<>>
    /\ written = <<>>
    /\ sessions = 0

RecorderUnused == RecorderConstructed([filename |-> FALSE, fmt |-> "json"])

\* No strategy is running.
StrategyUnused ==
    /\ RecorderUnused
    /\ BuildConstructed
    /\ DeciderUnused
    /\ GeneratorUnused
    /\ StandardConstructed
    /\ AutoConstructed

TruncInit ==
    /\ TrackerUnused
    /\ StrategyUnused
    /\ cfg = [enable_parallel |-> TRUE, hooks |-> FALSE]
    /\ memory \in Histories
    /\ appended = Tail(memory)
    /\ pc = "step"
    /\ steps_done = 0
    /\ total_tokens = 0
    /\ llm_in = "none"
    /\ turn = [action |-> <<>>, actions |-> <<>>]
    /\ actions = <<>>
    /\ dispatch = "none"
    /\ futures = <<>>
    /\ results = <<>>
    /\ observations = <<>>
    /\ step_ret = "none"
    /\ tool_calls = <<>>
    /\ model_calls = 0

TruncNext == TruncateEnter \/ TruncatePop \/ TruncateDone

SpecTrunc == TruncInit /\ [][TruncNext]_vars

(***************************************************************************)
(* Model interface (llm.py): the turn, the parser, OpenRouterManager.ask.  *)
(***************************************************************************)
ActionNames == {"read_file", "no_such_tool", "finish"}

\* ActionModel(name, parameters)
ActionModel(name, parameters) == [name |-> name, parameters |-> parameters]

NameLists == UNION {[1..k -> ActionNames] : k \in 0..MaxActions}

\* An "actions" list: its k-th action carries the parameters k, so that every
\* action of a turn can be told from the others by what it asks for.
ActionsOf(names) == [k \in 1..Len(names) |-> ActionModel(names[k], k)]

\* AgentResponse(thought, action, actions). A field that is None or empty is
\* falsy in get_actions and is kept as the empty sequence; "action" holds at
\* most one ActionModel.
Turns ==
    [action : {<<>>} \cup {<<ActionModel(n, 0)>> : n \in {"read_file", "finish"}},
     actions : {ActionsOf(l) : l \in NameLists}]

\* AgentResponse.get_actions
get_actions(t) ==
    IF t.actions # <<>> THEN t.actions
    ELSE IF t.action # <<>> THEN t.action
    ELSE <<>>

\* The raw model output, as its lexical pieces in order:
\*   "fence"  a Markdown fence marker (```json or ```)
\*   "prose"  text with no brace in it
\*   "object" the text of one well-formed JSON object {...}
\*   "value"  a well-formed JSON value that is no object (a number, a list)
\*   "lbrace" a lone opening brace
\* and, for an "object", what it holds: a turn that fits the schema or not.
RawTokens == {"fence", "prose", "object", "value", "lbrace"}

RawShapes == SeqsUpTo(RawTokens, MaxRawTokens)

EmptyTurn == [action |-> <<>>, actions |-> <<>>]

\* An object that fits the AgentResponse schema holds a turn; one that does
\* not (say, no "thought") holds nothing the orchestrator will see.
Payloads == [valid : {TRUE}, turn : Turns] \cup {[valid |-> FALSE, turn |-> EmptyTurn]}

\* re.sub(r"```json\s*|\s*```", "", raw_text).strip()
StripFences(shape) == SelectSeq(shape, LAMBDA t : t # "fence")

\* json.loads succeeds on text that is one JSON value and nothing else.
JsonLoads(toks) == Len(toks) = 1 /\ toks[1] \in {"object", "value"}

\* re.search(r"(\{.*\})", raw_text, re.DOTALL): from the first "{" to the last
\* "}" of the raw text; the empty sequence when there is no match.
BraceMatch(shape) ==
    LET opening == {i \in 1..Len(shape) : shape[i] \in {"object", "lbrace"}}
        closing == {i \in 1..Len(shape) : shape[i] = "object"}
    IN  IF opening = {} \/ closing = {} THEN <<>>
        ELSE LET lo == CHOOSE i \in opening : \A j \in opening : i <= j
                 hi == CHOOSE i \in closing : \A j \in closing : j <= i
             IN  IF lo > hi THEN <<>> ELSE SubSeq(shape, lo, hi)

\* ResponseParser.clean_and_parse: the parsed JSON value's kind, or a
\* ValueError.
clean_and_parse(shape) ==
    IF JsonLoads(StripFences(shape))
    THEN [ok |-> TRUE, kind |-> StripFences(shape)[1]]
    ELSE IF BraceMatch(shape) # <<>> /\ JsonLoads(BraceMatch(shape))
         THEN [ok |-> TRUE, kind |-> BraceMatch(shape)[1]]
         ELSE [ok |-> FALSE, kind |-> "ValueError"]

RecoverTurn ==
    [action |-> <<ActionModel("recover_from_error", 0)>>, actions |-> <<>>]

SystemErrorTurn ==
    [action |-> <<ActionModel("system_error", 0)>>, actions |-> <<>>]

\* What ask() meets: the provider client cannot be obtained, the request
\* fails, or the provider answers with raw text.
LLMEnvs ==
    {[kind |-> k, shape |-> <<>>, payload |-> [valid |-> FALSE, turn |-> EmptyTurn]] :
        k \in {"client_fail", "transport_fail"}}
    \cup [kind : {"raw"}, shape : RawShapes, payload : Payloads]

Returned(t) == [raised |-> FALSE, turn |-> t]
Raised == [raised |-> TRUE, turn |-> EmptyTurn]

\* The body of ask() once the client is there: the try block and its handlers.
AskWithClient(env) ==
    IF env.kind = "transport_fail" THEN Returned(SystemErrorTurn)
    ELSE LET parsed == clean_and_parse(env.shape)
         IN  IF ~parsed.ok THEN Returned(SystemErrorTurn)
             ELSE IF parsed.kind = "object" /\ env.payload.valid
                  THEN Returned(env.payload.turn)
                  ELSE Returned(RecoverTurn)

\* OpenRouterManager.ask: _get_client() is called before the try block.
ask(env) ==
    IF env.kind = "client_fail" THEN Raised ELSE AskWithClient(env)

\* What the raw text is, judged on the text alone: one JSON document, text
\* with no JSON value anywhere in it, or a mix.
InputClass(env) ==
    IF env.kind # "raw" THEN env.kind
    ELSE IF JsonLoads(env.shape) THEN "json"
    ELSE IF \A i \in 1..Len(env.shape) : env.shape[i] \notin {"object", "value"}
         THEN "no_json"
         ELSE "mixed"

(***************************************************************************)
(* Tool boundary (tools/registry.py).                                      *)
(***************************************************************************)
RegisteredTools == {"read_file", "recover_from_error", "system_error", "finish"}

\* What a registered tool does when it is invoked.
ToolBehaviours == {"returns_data", "returns_failure", "raises", "raises_TypeError"}

\* The exception self.tools[name](**params) ends with, "none" if it returns.
ToolException(behaviour) ==
    IF behaviour = "raises_TypeError" THEN "TypeError"
    ELSE IF behaviour = "raises" THEN "Exception"
    ELSE "none"

\* A call with the "except TypeError" clause alone.
CatchesTypeErrorOnly(exc) == exc = "TypeError"

\* except TypeError as e: ... except Exception as e: ...
CallCatches(exc) == exc \in {"TypeError", "Exception"}

\* An exception that leaves call.
CallRaised(name, exc) == <<"raise", name, exc>>

\* ToolManager.call: the string it returns, or the exception that leaves it.
call(name, params, behaviour) ==
    IF name \notin RegisteredTools THEN <<"Error: Tool not found", name>>
    ELSE IF name = "recover_from_error" THEN <<"Recovery initiated for error">>
    ELSE IF name = "system_error" THEN <<"Error: System error">>
    ELSE IF name = "finish" THEN <<"Task completed">>
    ELSE IF ToolException(behaviour) # "none"
         THEN IF ~CallCatches(ToolException(behaviour))
              THEN CallRaised(name, ToolException(behaviour))
              ELSE IF ToolException(behaviour) = "TypeError"
                   THEN <<"Error: Invalid parameters for tool", name>>
                   ELSE <<"Error: Tool execution failed", name>>
    ELSE IF behaviour = "returns_failure" THEN <<"Error: tool error", name>>
    ELSE <<"data", name, params>>

\* f"[{action.name}]: {obs_str}"
Segment(action, obs_str) == [label |-> action.name, text |-> obs_str]

\* f"[Error]: {str(e)}"
ErrorSegment(e) == [label |-> "Error", text |-> e]

NoSegment == [label |-> "", text |-> <<>>]

\* The exception a raising on_action(name, params) subscriber throws.
OnActionError(action) == <<"on_action failed", action.name, action.parameters>>

(***************************************************************************)
(* Orchestrator core: step() and run() (agent.py).                         *)
(***************************************************************************)
\* A subscriber or recorder call can raise only when one is registered.
MayRaise == IF cfg.hooks THEN BOOLEAN ELSE {FALSE}

NextId == Len(appended) + 1

\* self.memory.append(...)
MemoryAppend(role, len) ==
    /\ memory' = Append(memory, Message(role, NextId, len))
    /\ appended' = Append(appended, Message(role, NextId, len))

\* A test of the first action only.
FinishFirstOnly(acts) == acts # <<>> /\ acts[1].name = "finish"

\* any(a.name == "finish" for a in actions)
HasFinish(acts) == \E i \in 1..Len(acts) : acts[i].name = "finish"

\* A step() without the test for an empty list.
NeverEmpty(acts) == FALSE

\* not actions
IsEmpty(acts) == acts = <<>>

\* A dispatch that takes the whole list.
TakesAllActions(acts) == acts

\* actions[: self.max_parallel_tools]
ActionsToRun(acts) ==
    SubSeq(acts, 1, IF Len(acts) < MaxParallelTools THEN Len(acts) ELSE MaxParallelTools)

PendingFuture == [state |-> "pending", raised |-> FALSE, segment |-> NoSegment, exc |-> <<>>]

\* step(), lines 90-120: the model call, the assistant message, the thought
\* notifications, the effective action list and the choice of dispatch.
Ask ==
    /\ pc = "ask"
    /\ \E env \in LLMEnvs, len \in MsgLens, thought_raises \in MayRaise :
          LET r == ask(env)
              acts == get_actions(r.turn)
          IN  /\ model_calls' = model_calls + 1
              /\ llm_in' = InputClass(env)
              /\ IF r.raised
                 THEN \* llm.ask raised: nothing is appended, the exception leaves step()
                      /\ pc' = "raised"
                      /\ step_ret' = "raised"
                      /\ UNCHANGED <<memory, appended, turn, actions, dispatch, futures>>
                 ELSE /\ MemoryAppend("assistant", len)
                      /\ turn' = r.turn
                      /\ IF thought_raises
                         THEN \* self.on_thought(...) is not guarded
                              /\ pc' = "raised"
                              /\ step_ret' = "raised"
                              /\ UNCHANGED <<actions, dispatch, futures>>
                         ELSE IF IsEmpty(acts) \/ HasFinish(acts)
                         THEN /\ pc' = "loop"
                              /\ step_ret' = "false"
                              /\ actions' = acts
                              /\ UNCHANGED <<dispatch, futures>>
                         ELSE IF cfg.enable_parallel /\ Len(acts) > 1
                         THEN /\ pc' = "parallel"
                              /\ dispatch' = "parallel"
                              /\ actions' = acts
                              /\ futures' = [i \in 1..Len(ActionsToRun(acts)) |-> PendingFuture]
                              /\ UNCHANGED step_ret
                         ELSE \* _execute_sequential; its loop has no iteration
                              \* on an empty list
                              /\ pc' = IF acts = <<>> THEN "observe" ELSE "sequential"
                              /\ dispatch' = "sequential"
                              /\ actions' = acts
                              /\ UNCHANGED <<step_ret, futures>>
    /\ UNCHANGED <<cfg, steps_done, total_tokens, results, observations, tool_calls>>
    /\ UNCHANGED trackerVars
    /\ UNCHANGED strategyVars

\* _execute_sequential: one iteration of its loop.
ExecuteSequential ==
    /\ pc = "sequential"
    /\ LET i == Len(observations) + 1
           action == actions[i]
       IN  \E action_raises \in MayRaise, behaviour \in ToolBehaviours :
              IF action_raises
              THEN \* self.on_action(...) is not guarded
                   /\ pc' = "raised"
                   /\ step_ret' = "raised"
                   /\ UNCHANGED <<observations, tool_calls>>
              ELSE /\ tool_calls' = Append(tool_calls, action)
                   /\ observations' =
                        Append(observations,
                               Segment(action, call(action.name, action.parameters, behaviour)))
                   /\ pc' = IF i = Len(actions) THEN "observe" ELSE "sequential"
                   /\ UNCHANGED step_ret
    /\ UNCHANGED <<cfg, memory, appended, steps_done, total_tokens, llm_in, turn,
                   actions, dispatch, futures, results, model_calls>>
    /\ UNCHANGED trackerVars
    /\ UNCHANGED strategyVars

\* _execute_parallel, run_action(idx, action) in a worker: the future ends
\* with the segment, or with the exception of a raising on_action.
RunAction(i) ==
    /\ pc = "parallel"
    /\ i \in DOMAIN futures
    /\ futures[i].state = "pending"
    /\ \E action_raises \in MayRaise, behaviour \in ToolBehaviours :
          IF action_raises
          THEN /\ futures' = [futures EXCEPT ![i] =
                    [state |-> "done", raised |-> TRUE, segment |-> NoSegment,
                     exc |-> OnActionError(actions[i])]]
               /\ UNCHANGED tool_calls
          ELSE /\ futures' = [futures EXCEPT ![i] =
                    [state |-> "done", raised |-> FALSE,
                     segment |-> Segment(actions[i],
                                         call(actions[i].name, actions[i].parameters, behaviour)),
                     exc |-> <<>>]]
               /\ tool_calls' = Append(tool_calls, actions[i])
    /\ UNCHANGED <<cfg, memory, appended, pc, steps_done, total_tokens, llm_in, turn,
                   actions, dispatch, results, observations, step_ret, model_calls>>
    /\ UNCHANGED trackerVars
    /\ UNCHANGED strategyVars

\* _execute_parallel, the body of "for future in as_completed(futures)" for a
\* future that has completed: results[idx] = ...
Collect(i) ==
    /\ pc = "parallel"
    /\ i \in DOMAIN futures
    /\ futures[i].state = "done"
    /\ futures' = [futures EXCEPT ![i].state = "collected"]
    /\ results' = Append(results,
                         <<i, IF futures[i].raised
                              THEN ErrorSegment(futures[i].exc)
                              ELSE futures[i].segment>>)
    /\ UNCHANGED <<cfg, memory, appended, pc, steps_done, total_tokens, llm_in, turn,
                   actions, dispatch, observations, step_ret, tool_calls, model_calls>>
    /\ UNCHANGED trackerVars
    /\ UNCHANGED strategyVars

\* The results in the order they were collected in.
InInsertionOrder(res) == [k \in 1..Len(res) |-> res[k][2]]

\* [results[i] for i in sorted(results.keys())]
SortedByIndex(res) ==
    LET keys == {res[j][1] : j \in 1..Len(res)}
        kth(k) == CHOOSE x \in keys : Cardinality({y \in keys : y < x}) = k - 1
        at(x) == res[CHOOSE j \in 1..Len(res) : res[j][1] = x][2]
    IN  [k \in 1..Len(res) |-> at(kth(k))]

\* An _execute_parallel that returns with the first result collected.
ReturnsAfterFirstResult ==
    /\ pc = "parallel"
    /\ \E i \in DOMAIN futures : futures[i].state = "collected"
    /\ observations' = SortedByIndex(results)
    /\ pc' = "observe"
    /\ UNCHANGED <<cfg, memory, appended, steps_done, total_tokens, llm_in, turn,
                   actions, dispatch, futures, results, step_ret, tool_calls, model_calls>>
    /\ UNCHANGED trackerVars
    /\ UNCHANGED strategyVars

\* _execute_parallel returns once every future has been collected.
ParallelReturn ==
    /\ pc = "parallel"
    /\ \A i \in DOMAIN futures : futures[i].state = "collected"
    /\ observations' = SortedByIndex(results)
    /\ pc' = "observe"
    /\ UNCHANGED <<cfg, memory, appended, steps_done, total_tokens, llm_in, turn,
                   actions, dispatch, futures, results, step_ret, tool_calls, model_calls>>
    /\ UNCHANGED trackerVars
    /\ UNCHANGED strategyVars

\* step(), lines 122-137: the joined observation, its notifications, the user
\* message, return True.
Observe ==
    /\ pc = "observe"
    /\ \E len \in MsgLens, observation_raises \in MayRaise :
          IF observation_raises
          THEN \* self.on_observation(...) is not guarded
               /\ pc' = "raised"
               /\ step_ret' = "raised"
               /\ UNCHANGED <<memory, appended>>
          ELSE /\ MemoryAppend("user", len)
               /\ pc' = "loop"
               /\ step_ret' = "true"
    /\ UNCHANGED <<cfg, steps_done, total_tokens, llm_in, turn, actions, dispatch,
                   futures, results, observations, tool_calls, model_calls>>
    /\ UNCHANGED trackerVars
    /\ UNCHANGED strategyVars

\* run(task), lines 228-230: the task message and trajectory.start(task).
Run ==
    /\ pc = "idle"
    /\ \E len \in MsgLens, start_raises \in MayRaise :
          /\ MemoryAppend("user", len)
          /\ pc' = IF start_raises THEN "raised" ELSE "loop"
    /\ UNCHANGED <<cfg, steps_done, total_tokens, step_ret>>
    /\ UNCHANGED stepLocals
    /\ UNCHANGED trackerVars
    /\ UNCHANGED strategyVars

\* A loop that goes on whatever step() returned.
NeverBreaks(ret) == FALSE

\* if not self.step(): break
LoopBreaks(ret) == ret = "false"

\* run(), lines 232-233: the loop begins another step().
LoopIterate ==
    /\ pc = "loop"
    /\ ~LoopBreaks(step_ret)
    /\ steps_done < MaxSteps
    /\ steps_done' = steps_done + 1
    /\ pc' = "step"
    /\ step_ret' = "none"
    /\ turn' = EmptyTurn
    /\ actions' = <<>>
    /\ dispatch' = "none"
    /\ futures' = <<>>
    /\ results' = <<>>
    /\ observations' = <<>>
    /\ tool_calls' = <<>>
    /\ llm_in' = "none"
    /\ UNCHANGED <<cfg, memory, appended, total_tokens, model_calls>>
    /\ UNCHANGED trackerVars
    /\ UNCHANGED strategyVars

\* run(), lines 234-237: the loop is left (break, or the budget is used up),
\* then trajectory.end(status="completed").
RunEnd ==
    /\ pc = "loop"
    /\ LoopBreaks(step_ret) \/ steps_done >= MaxSteps
    /\ \E end_raises \in MayRaise :
          pc' = IF end_raises THEN "raised" ELSE "returned"
    \* the frame of the last step() is gone
    /\ turn' = EmptyTurn
    /\ actions' = <<>>
    /\ dispatch' = "none"
    /\ futures' = <<>>
    /\ results' = <<>>
    /\ observations' = <<>>
    /\ tool_calls' = <<>>
    /\ llm_in' = "none"
    /\ UNCHANGED <<cfg, memory, appended, steps_done, total_tokens, step_ret, model_calls>>
    /\ UNCHANGED trackerVars
    /\ UNCHANGED strategyVars

AgentInit ==
    /\ TrackerUnused
    /\ StrategyUnused
    /\ \E c \in [enable_parallel : BOOLEAN, hooks : BOOLEAN] : AgentConstructed(c)

AgentNext ==
    \/ Run
    \/ LoopIterate
    \/ TruncateEnter
    \/ TruncatePop
    \/ TruncateDone
    \/ Ask
    \/ ExecuteSequential
    \/ \E i \in 1..MaxParallelTools : RunAction(i)
    \/ \E i \in 1..MaxParallelTools : Collect(i)
    \/ ParallelReturn
    \/ Observe
    \/ RunEnd

Spec == AgentInit /\ [][AgentNext]_vars

\* An agent with parallel dispatch and no subscriber or recorder.
RunInit ==
    /\ TrackerUnused
    /\ StrategyUnused
    /\ AgentConstructed([enable_parallel |-> TRUE, hooks |-> FALSE])

\* run() where every call that is made comes back and every worker that was
\* submitted runs: a step of run() that can be taken is taken.
SpecRun == RunInit /\ [][AgentNext]_vars /\ WF_vars(AgentNext)

TrackerInit ==
    /\ plan \in Plans
    /\ steps_progress = InitializeSteps(plan)
    /\ tracker_ret = Ret(TRUE)
    /\ AgentConstructed([enable_parallel |-> TRUE, hooks |-> FALSE])
    /\ StrategyUnused

TrackerNext ==
    \E step_id \in StepIds \cup {UnknownStepId} :
        \/ start_step(step_id) /\ UNCHANGED <<agentVars, strategyVars>>
        \/ complete_step(step_id) /\ UNCHANGED <<agentVars, strategyVars>>
        \/ fail_step(step_id) /\ UNCHANGED <<agentVars, strategyVars>>
        \/ skip_step(step_id) /\ UNCHANGED <<agentVars, strategyVars>>
        \/ block_step(step_id) /\ UNCHANGED <<agentVars, strategyVars>>
        \/ check_dependencies(step_id) /\ UNCHANGED <<agentVars, strategyVars>>

\* The status operations of the tracker.
SpecTracker == TrackerInit /\ [][TrackerNext]_vars

\* Longest dependency list of the plans the tracker is driven over with
\* update_subtask among its operations.
MaxOpsDeps == 1

TrackerOpsInit ==
    /\ TrackerInit
    /\ \A i \in DOMAIN plan : Len(plan[i].dependencies) <= MaxOpsDeps

UpdateSubtask ==
    \E step_id \in StepIds \cup {UnknownStepId}, subtask_name \in SubtaskNames,
       completed \in BOOLEAN :
        /\ update_subtask(step_id, subtask_name, completed)
        /\ UNCHANGED <<agentVars, strategyVars>>

TrackerOpsNext ==
    \/ TrackerNext
    \/ UpdateSubtask

\* Every operation of the tracker, update_subtask included.
SpecTrackerOps == TrackerOpsInit /\ [][TrackerOpsNext]_vars

(***************************************************************************)
(* Build strategy (build_mode.py): BuildMode.run and _execute_step over    *)
(* the plan state tracker.  The orchestrator's step() is taken by what it  *)
(* gives Build: the value it returns (or the exception that leaves it) and *)
(* whether the last message of the history then carries a "done" word.     *)
(***************************************************************************)
\* BuildMode.max_iterations_per_step
MaxIterationsPerStep == 5

\* Largest plan handed to Build, longest dependency list of its steps, and
\* largest max_steps argument.
MaxBuildPlanSteps == 3
MaxBuildDeps == 1
MaxBuildBudget == 6

\* A step_id that cannot be a dict key (a list or a dict of the model's JSON;
\* neither _parse_plan nor Step checks the type).
UnhashableId == 0

\* The plans Build is run on: any Plan object, the empty one and ones whose
\* steps share an id or name a dependency that is not in the plan included
\* (neither Plan nor the generator checks step ids or dependency ids).
BuildStep ==
    [step_id : (1..MaxBuildPlanSteps) \cup {UnhashableId},
     dependencies : SeqsUpTo(1..MaxBuildPlanSteps, MaxBuildDeps)]

BuildPlans == UNION {[1..k -> BuildStep] : k \in 0..MaxBuildPlanSteps}

Min(a, b) == IF a <= b THEN a ELSE b

\* What agent.step() does as Build sees it: it returns True or False, or an
\* exception leaves it.
StepOutcomes == {"true", "false", "raised"}

\* A cap per plan step that leaves the remaining budget out.
IgnoresRemaining(a, b) == a

\* min(self.max_iterations_per_step, remaining)
MaxForStep(a, b) == Min(a, b)

\* A loop that handles a blocked step again.
RetryBlocked(i) == i

\* "continue": the loop goes on to the step after a blocked one.
AfterBlocked(i) == i + 1

\* A result that counts any progress as success.
AnyProgressIsSuccess(progress) == progress > 0

\* "success": progress >= 100.0
BuildSuccess(progress) == progress >= 10000

\* The result dict of run(), lines 71-82.
BuildResult(progress, total, completed) ==
    [success |-> BuildSuccess(progress), has_progress |-> TRUE, progress |-> progress,
     total_steps |-> total, plan_steps_completed |-> completed, error |-> FALSE]

\* The result dict of run()'s except clause, line 91.
BuildErrorResult ==
    [success |-> FALSE, has_progress |-> FALSE, progress |-> 0,
     total_steps |-> 0, plan_steps_completed |-> 0, error |-> TRUE]

\* The record kept of the handling of the plan step at position i.
Handled(i, started) ==
    [index |-> i, started |-> started, calls |-> 0]

\* What a Build run leaves alone: the callers of Build and the other strategy.
aboveBuildVars == <<deciderVars, generatorVars, standardVars, autoVars, recorderVars>>

\* PlanTodoManager(plan, ...) raises: _initialize_steps (plan_todo.py 31-38)
\* uses every step_id as a key of steps_progress.
TrackerRaises(p) == \E i \in DOMAIN p : p[i].step_id = UnhashableId

\* run(), lines 54-56 and 68-85: the loop over plan.steps ends (no step is
\* left, the run was stopped, or the budget is used up) and the result is made.
BuildFinish ==
    /\ build_pc = "loop"
    /\ \/ build_index > Len(plan)
       \/ ~is_running
       \/ total_agent_steps >= build_max_steps
    /\ is_running' = FALSE
    /\ build_result' =
          <<BuildResult(get_overall_progress(steps_progress, Len(plan)),
                        total_agent_steps,
                        SumCompleted(steps_progress, DOMAIN steps_progress))>>
    /\ build_pc' = "done"
    /\ UNCHANGED <<build_max_steps, build_index, total_agent_steps, steps_used,
                   max_for_step, handled>>
    /\ UNCHANGED trackerVars
    /\ UNCHANGED agentVars
    /\ UNCHANGED aboveBuildVars

\* The plan step the loop of run() is at.
CurrentStep == plan[build_index]

\* run(), line 55 passed: the loop handles the step at build_index.
LoopContinues ==
    /\ build_pc = "loop"
    /\ build_index <= Len(plan)
    /\ is_running
    /\ total_agent_steps < build_max_steps

\* run(), lines 58-61: check_dependencies(step.step_id) is false (it has
\* blocked the step), block_step(step.step_id), continue.
BuildBlockStep ==
    /\ LoopContinues
    /\ UnmetDependency(FirstStepWithId(plan, CurrentStep.step_id).dependencies) # 0
    /\ steps_progress' = BlockStepEffect(CurrentStep.step_id, <<"Dependencies not met">>)
    /\ tracker_ret' = Ret(TRUE)
    /\ handled' = Append(handled, Handled(build_index, FALSE))
    /\ build_index' = AfterBlocked(build_index)
    /\ UNCHANGED <<plan, build_pc, build_max_steps, total_agent_steps, steps_used,
                   max_for_step, is_running, build_result>>
    /\ UNCHANGED agentVars
    /\ UNCHANGED aboveBuildVars

\* run(), lines 58 and 63 with _execute_step, lines 97-110: the dependencies
\* are met, start_step(step.step_id), the prompt, the iteration cap.
BuildStartStep ==
    /\ LoopContinues
    /\ UnmetDependency(FirstStepWithId(plan, CurrentStep.step_id).dependencies) = 0
    /\ steps_progress' =
          [steps_progress EXCEPT ![CurrentStep.step_id].status = IN_PROGRESS]
    /\ tracker_ret' = Ret(TRUE)
    /\ handled' = Append(handled, Handled(build_index, TRUE))
    /\ steps_used' = 0
    /\ max_for_step' = MaxForStep(MaxIterationsPerStep, build_max_steps - total_agent_steps)
    /\ build_pc' = "exec"
    /\ UNCHANGED <<plan, build_max_steps, build_index, total_agent_steps, is_running,
                   build_result>>
    /\ UNCHANGED agentVars
    /\ UNCHANGED aboveBuildVars

\* _execute_step, line 112-113 passed: another iteration is made.
IterationContinues ==
    /\ build_pc = "exec"
    /\ steps_used < max_for_step
    /\ is_running

\* _execute_step, lines 116-120: one agent.step(). An exception that leaves
\* it ends run() in its except clause (lines 87-91).
BuildAgentStep ==
    /\ IterationContinues
    /\ handled' = [handled EXCEPT ![Len(handled)].calls = @ + 1]
    /\ \E outcome \in StepOutcomes, is_step_done \in BOOLEAN :
          IF outcome = "raised"
          THEN /\ is_running' = FALSE
               /\ build_result' = <<BuildErrorResult>>
               /\ build_pc' = "done"
               /\ UNCHANGED <<steps_used, steps_progress, tracker_ret, build_index,
                              total_agent_steps>>
          ELSE /\ steps_used' = steps_used + 1
               /\ IF outcome = "false" \/ is_step_done
                     \/ steps_used + 1 >= max_for_step
                  THEN \* the loop is left: complete_step, return steps_used
                       /\ steps_progress' =
                             SetStatus(CurrentStep.step_id, COMPLETED, <<"observation">>)
                       /\ tracker_ret' = Ret(TRUE)
                       /\ total_agent_steps' = total_agent_steps + steps_used + 1
                       /\ build_index' = build_index + 1
                       /\ build_pc' = "loop"
                  ELSE /\ UNCHANGED <<steps_progress, tracker_ret, total_agent_steps,
                                      build_index, build_pc>>
               /\ UNCHANGED <<is_running, build_result>>
    /\ UNCHANGED <<plan, build_max_steps, max_for_step>>
    /\ UNCHANGED agentVars
    /\ UNCHANGED aboveBuildVars

\* A stopped step that is returned from with no complete_step.
LeftInProgressWhenStopped ==
    /\ build_pc = "exec"
    /\ steps_used < max_for_step
    /\ ~is_running
    /\ total_agent_steps' = total_agent_steps + steps_used
    /\ build_index' = build_index + 1
    /\ build_pc' = "loop"
    /\ UNCHANGED <<plan, build_max_steps, steps_used, max_for_step, is_running,
                   build_result, handled>>
    /\ UNCHANGED <<steps_progress, tracker_ret>>
    /\ UNCHANGED agentVars
    /\ UNCHANGED aboveBuildVars

\* _execute_step, lines 112-114 and 122-126, with run(), line 66: the run was
\* stopped before an iteration; complete_step, return steps_used.
BuildStepStopped ==
    /\ build_pc = "exec"
    /\ steps_used < max_for_step
    /\ ~is_running
    /\ steps_progress' = SetStatus(CurrentStep.step_id, COMPLETED, <<"observation">>)
    /\ tracker_ret' = Ret(TRUE)
    /\ total_agent_steps' = total_agent_steps + steps_used
    /\ build_index' = build_index + 1
    /\ build_pc' = "loop"
    /\ UNCHANGED <<plan, build_max_steps, steps_used, max_for_step, is_running,
                   build_result, handled>>
    /\ UNCHANGED agentVars
    /\ UNCHANGED aboveBuildVars

\* BuildMode.stop(), called from outside while run() is under way.
BuildStop ==
    /\ build_pc \in {"loop", "exec"}
    /\ is_running
    /\ is_running' = FALSE
    /\ UNCHANGED <<build_pc, build_max_steps, build_index, total_agent_steps, steps_used,
                   max_for_step, build_result, handled>>
    /\ UNCHANGED trackerVars
    /\ UNCHANGED agentVars
    /\ UNCHANGED aboveBuildVars

\* run(task, plan, max_steps) is called, lines 46-51: is_running is set and
\* the tracker is made for the plan; these lines are not in the try block,
\* an exception of the tracker's construction leaves run().
BuildRun ==
    /\ build_pc = "idle"
    /\ \E p \in BuildPlans, budget \in 0..MaxBuildBudget :
          IF TrackerRaises(p)
          THEN /\ is_running' = TRUE
               /\ build_pc' = "raised"
               /\ build_max_steps' = budget
               /\ UNCHANGED <<build_index, total_agent_steps, steps_used, max_for_step,
                              build_result, handled>>
               /\ UNCHANGED trackerVars
          ELSE /\ plan' = p
               /\ steps_progress' = InitializeSteps(p)
               /\ tracker_ret' = Ret(TRUE)
               /\ build_pc' = "loop"
               /\ build_max_steps' = budget
               /\ build_index' = 1
               /\ total_agent_steps' = 0
               /\ steps_used' = 0
               /\ max_for_step' = 0
               /\ is_running' = TRUE
               /\ build_result' = <<>>
               /\ handled' = <<>>
    /\ UNCHANGED agentVars
    /\ UNCHANGED aboveBuildVars

BuildInit ==
    /\ RecorderUnused
    /\ TrackerUnused
    /\ AgentConstructed([enable_parallel |-> TRUE, hooks |-> FALSE])
    /\ BuildConstructed
    /\ DeciderUnused
    /\ GeneratorUnused
    /\ StandardConstructed
    /\ AutoConstructed

BuildNext ==
    \/ BuildRun
    \/ BuildFinish
    \/ BuildBlockStep
    \/ BuildStartStep
    \/ BuildAgentStep
    \/ BuildStepStopped
    \/ BuildStop

SpecBuild == BuildInit /\ [][BuildNext]_vars

(***************************************************************************)
(* The text of a model response (plan_decider.py, plan_mode.py).           *)
(* should_plan and generate turn the response into text and take a JSON    *)
(* value out of it with the same lines of code.  A text is a sequence of   *)
(* tokens: an opening "```json", a bare "```", prose without braces, a     *)
(* JSON object "{...}", a JSON value that is not an object and has no      *)
(* brace (a list), and text with one stray "{" or one stray "}".  What the *)
(* object of a text holds is the payload that comes with the text.         *)
(***************************************************************************)
\* Longest response text, in tokens.
MaxTextTokens == 3

TextTokens == {"fence_json", "fence", "prose", "object", "list", "lbrace", "rbrace"}

Texts == SeqsUpTo(TextTokens, MaxTextTokens)

IsFence(tok) == tok \in {"fence_json", "fence"}

SetMin(S) == CHOOSE x \in S : \A y \in S : x <= y

SetMax(S) == CHOOSE x \in S : \A y \in S : x >= y

\* A token that has lost its last character: an object loses its closing
\* brace, a list its bracket, a stray "}" the brace.
DropLastChar(tok) ==
    CASE tok = "object" -> "lbrace"
      [] tok = "list"   -> "prose"
      [] tok = "rbrace" -> "prose"
      [] OTHER          -> tok

\* text[start:end] with end = -1.
DropLast(text) ==
    IF text = <<>> THEN <<>>
    ELSE SubSeq(text, 1, Len(text) - 1) \o <<DropLastChar(text[Len(text)])>>

\* start = text.find(fence) + len(fence); end = text.find("```", start);
\* text[start:end]: up to the next fence, or, with no next fence (end = -1),
\* the rest without its last character.
AfterFence(text, i) ==
    LET later == {j \in (i + 1)..Len(text) : IsFence(text[j])}
    IN  IF later = {} THEN DropLast(SubSeq(text, i + 1, Len(text)))
        ELSE SubSeq(text, i + 1, SetMin(later) - 1)

\* if "```json" in text: ... elif "```" in text: ...
ExtractFenced(text) ==
    LET json_fences == {i \in 1..Len(text) : text[i] = "fence_json"}
        fences == {i \in 1..Len(text) : IsFence(text[i])}
    IN  IF json_fences # {} THEN AfterFence(text, SetMin(json_fences))
        ELSE IF fences # {} THEN AfterFence(text, SetMin(fences))
        ELSE text

\* json_start = text.find("{"); json_end = text.rfind("}") + 1;
\* if json_start >= 0 and json_end > json_start: text = text[json_start:json_end]
BraceSlice(text) ==
    LET opens == {i \in 1..Len(text) : text[i] \in {"object", "lbrace"}}
        closes == {i \in 1..Len(text) : text[i] \in {"object", "rbrace"}}
    IN  IF opens # {} /\ closes # {} /\ SetMax(closes) >= SetMin(opens)
        THEN SubSeq(text, SetMin(opens), SetMax(closes))
        ELSE text

\* json.loads(text): a dict, a value that is not a dict, or JSONDecodeError.
JsonKind(text) ==
    IF text = <<"object">> THEN "dict"
    ELSE IF text = <<"list">> THEN "nondict"
    ELSE "JSONDecodeError"

\* The JSON value the parsers take out of a response text.
ExtractJson(text) == JsonKind(BraceSlice(ExtractFenced(text)))

(***************************************************************************)
(* The Decider (plan_decider.py).                                          *)
(***************************************************************************)
SIMPLE == "simple"
MODERATE == "moderate"
COMPLEX == "complex"

TaskComplexity == {SIMPLE, MODERATE, COMPLEX}

\* The "complexity" and "needs_planning" fields of the object of a response:
\* absent, a level (in any case), another string, or a value that is no string;
\* absent, true, false, or null (a value that is no boolean and counts as
\* false where it is tested).
ComplexityFields == {"absent", "simple", "moderate", "complex", "COMPLEX", "hard", "nonstring"}

NeedsPlanningFields == {"absent", "true", "false", "null"}

DecisionPayloads == [complexity : ComplexityFields, needs_planning : NeedsPlanningFields]

\* The keywords of _fallback_decision found in the prose of a response.
Keywords == {"complex", "simple"}

\* What llm.ask gives should_plan: it raises, or it returns a response whose
\* text (model_dump_json(), str(thought) or str(response)) is made of tokens.
DeciderResponsesOver(texts) ==
    {[kind |-> "raises", text |-> <<>>,
      payload |-> [complexity |-> "absent", needs_planning |-> "absent"], words |-> {}]}
    \cup [kind : {"text"}, text : texts, payload : DecisionPayloads, words : SUBSET Keywords]

DeciderResponses == DeciderResponsesOver(Texts)

PlanDecision(needs_planning, complexity, suggested_steps, from) ==
    [needs_planning |-> needs_planning, complexity |-> complexity,
     suggested_steps |-> suggested_steps, from |-> from]

\* str.lower()
Lower(str) == IF str = "COMPLEX" THEN "complex" ELSE str

HasObject(r) == \E i \in 1..Len(r.text) : r.text[i] = "object"

\* keyword in text.lower(): in the prose, or in the object of the text (whose
\* key "complexity" holds the word "complex").
TextContains(r, keyword) ==
    \/ keyword \in r.words
    \/ /\ HasObject(r)
       /\ r.payload.complexity # "absent"
       /\ \/ keyword = "complex"
          \/ Lower(r.payload.complexity) = keyword

\* A keyword heuristic whose last branch decides against planning.
FallbackDefaultsToDirect(r) ==
    IF TextContains(r, "complex") THEN PlanDecision(TRUE, COMPLEX, 7, "keywords")
    ELSE IF TextContains(r, "simple") THEN PlanDecision(FALSE, SIMPLE, 2, "keywords")
    ELSE PlanDecision(FALSE, MODERATE, 5, "keywords_default")

\* _fallback_decision(text)
fallback_decision(r) ==
    IF TextContains(r, "complex") THEN PlanDecision(TRUE, COMPLEX, 7, "keywords")
    ELSE IF TextContains(r, "simple") THEN PlanDecision(FALSE, SIMPLE, 2, "keywords")
    ELSE PlanDecision(TRUE, MODERATE, 5, "keywords_default")

\* The exception that leaves the try block of _parse_decision, "none" if it
\* returns: json.loads fails; data is no dict (no .get) or the complexity no
\* string (no .lower); TaskComplexity(...) of a string that is no level.
ParseDecisionError(r) ==
    LET kind == ExtractJson(r.text)
        c == IF r.payload.complexity = "absent" THEN "moderate" ELSE r.payload.complexity
    IN  IF kind = "JSONDecodeError" THEN "JSONDecodeError"
        ELSE IF kind = "nondict" THEN "AttributeError"
        ELSE IF c = "nonstring" THEN "AttributeError"
        ELSE IF Lower(c) \notin TaskComplexity THEN "ValueError"
        ELSE "none"

\* except (json.JSONDecodeError, ValueError, KeyError)
ParseDecisionCatches(e) == e \in {"JSONDecodeError", "ValueError", "KeyError"}

Returns(value) == [raised |-> "none", value |-> value]

Raises(e) == [raised |-> e, value |-> <<>>]

\* data.get("needs_planning", True), as "if decision.needs_planning" takes it:
\* the value is stored as it is, PlanDecision is a dataclass and converts
\* nothing.
NeedsPlanningValue(field) == field \notin {"false", "null"}

\* _parse_decision(response_text)
parse_decision(r) ==
    LET e == ParseDecisionError(r)
        c == IF r.payload.complexity = "absent" THEN "moderate" ELSE r.payload.complexity
    IN  IF e = "none"
        THEN Returns(PlanDecision(NeedsPlanningValue(r.payload.needs_planning),
                                  Lower(c), 5, "parsed"))
        ELSE IF ParseDecisionCatches(e) THEN Returns(fallback_decision(r))
        ELSE Raises(e)

\* A handler of should_plan that takes the parse errors only.
CatchesParseErrorsOnly(e) == e \in {"JSONDecodeError", "ValueError", "KeyError"}

\* except Exception
ShouldPlanCatches(e) == TRUE

\* The decision of should_plan's except clause.
DefaultDecision == PlanDecision(TRUE, MODERATE, 5, "failed")

\* should_plan(task)
should_plan(r) ==
    LET e == IF r.kind = "raises" THEN "Exception" ELSE parse_decision(r).raised
    IN  IF e = "none" THEN parse_decision(r)
        ELSE IF ShouldPlanCatches(e) THEN Returns(DefaultDecision)
        ELSE Raises(e)

\* One call of should_plan on the response held.
ShouldPlan ==
    /\ decider_response # NoResponse
    /\ decider_out = <<>>
    /\ decider_out' = <<should_plan(decider_response)>>
    /\ UNCHANGED <<decider_response, generatorVars, standardVars, autoVars, buildVars>>
    /\ UNCHANGED trackerVars
    /\ UNCHANGED agentVars
    /\ UNCHANGED recorderVars

DeciderInit ==
    /\ RecorderUnused
    /\ TrackerUnused
    /\ AgentConstructed([enable_parallel |-> TRUE, hooks |-> FALSE])
    /\ BuildConstructed
    /\ GeneratorUnused
    /\ StandardConstructed
    /\ AutoConstructed
    /\ decider_response \in DeciderResponses
    /\ decider_out = <<>>

DeciderNext == ShouldPlan

SpecDecider == DeciderInit /\ [][DeciderNext]_vars

(***************************************************************************)
(* The Plan Generator (plan_mode.py).                                      *)
(***************************************************************************)
\* Most steps in the "steps" list of a response, and largest step id there.
MaxGenSteps == 2
MaxGenStepId == 2

\* The task generate is called with.
Task == "task"

\* A "step_id" field that is absent.
AbsentId == 0

\* The "dependencies" field of a step dict: absent, or a list of ids.
DependencyFields ==
    {[has |-> FALSE, ids |-> <<>>]}
    \cup [has : {TRUE}, ids : SeqsUpTo(1..MaxGenStepId, 1)]

\* An item of the "steps" list: a dict with its fields, or a value that is
\* no dict.
StepItems ==
    {[dict |-> FALSE, step_id |-> AbsentId, description |-> "absent",
      dependencies |-> [has |-> FALSE, ids |-> <<>>]]}
    \cup [dict : {TRUE}, step_id : {AbsentId} \cup 1..MaxGenStepId,
          description : {"absent", "described"}, dependencies : DependencyFields]

\* The "steps" field of the object of a response: absent, null, a number, a
\* string (or a dict), or a list of items.
StepsFields ==
    [kind : {"absent", "null", "number", "string"}, items : {<<>>}]
    \cup [kind : {"list"}, items : SeqsUpTo(StepItems, MaxGenSteps)]

\* What llm.plan_ask gives generate: it raises, or it returns text.
GenResponsesOver(texts) ==
    {[kind |-> "raises", text |-> <<>>, steps |-> [kind |-> "absent", items |-> <<>>]]}
    \cup [kind : {"text"}, text : texts, steps : StepsFields]

GenResponses == GenResponsesOver(Texts)

\* Step(step_id=..., description=..., dependencies=...)
PlanStep(step_id, description, dependencies) ==
    [step_id |-> step_id, description |-> description, dependencies |-> dependencies]

\* Plan(task=..., steps=..., description=...)
Plan(task, steps, description) ==
    [task |-> task, steps |-> steps, description |-> description]

\* _create_fallback_plan(task)
create_fallback_plan(task) ==
    Plan(task, <<PlanStep(1, task, <<>>)>>, "Fallback single-step plan")

\* The Step made of the i-th item of the list: step_dict.get("step_id",
\* len(steps) + 1), .get("description", ""), .get("dependencies", []).
StepOf(item, i) ==
    PlanStep(IF item.step_id = AbsentId THEN i ELSE item.step_id,
             IF item.description = "absent" THEN "" ELSE item.description,
             IF item.dependencies.has THEN item.dependencies.ids ELSE <<>>)

\* The exception that leaves the try block of _parse_plan, "none" if it
\* returns: json.loads fails; plan_dict is no dict (no .get); "steps" is not
\* iterable; an item of it (a character of a string, a value of a list) is no
\* dict (no .get).
ParsePlanError(r) ==
    LET kind == ExtractJson(r.text)
    IN  IF kind = "JSONDecodeError" THEN "JSONDecodeError"
        ELSE IF kind = "nondict" THEN "AttributeError"
        ELSE IF r.steps.kind \in {"null", "number"} THEN "TypeError"
        ELSE IF r.steps.kind = "string" THEN "AttributeError"
        ELSE IF \E i \in 1..Len(r.steps.items) : ~r.steps.items[i].dict
             THEN "AttributeError"
        ELSE "none"

\* except (json.JSONDecodeError, KeyError, TypeError)
ParsePlanCatches(e) == e \in {"JSONDecodeError", "KeyError", "TypeError"}

\* _parse_plan(response_text, original_task)
parse_plan(r, original_task) ==
    LET e == ParsePlanError(r)
    IN  IF e = "none"
        THEN Returns(Plan(original_task,
                          [i \in 1..Len(r.steps.items) |-> StepOf(r.steps.items[i], i)],
                          ""))
        ELSE IF ParsePlanCatches(e) THEN Returns(create_fallback_plan(original_task))
        ELSE Raises(e)

\* A handler of generate that takes the errors of _parse_plan's handler only.
CatchesPlanParseErrorsOnly(e) == e \in {"JSONDecodeError", "KeyError", "TypeError"}

\* except Exception
GenerateCatches(e) == TRUE

\* generate(task)
generate(r, task) ==
    LET e == IF r.kind = "raises" THEN "Exception" ELSE parse_plan(r, task).raised
    IN  IF e = "none" THEN parse_plan(r, task)
        ELSE IF GenerateCatches(e) THEN Returns(create_fallback_plan(task))
        ELSE Raises(e)

\* One call of generate on the response held.
Generate ==
    /\ gen_response # NoResponse
    /\ gen_out = <<>>
    /\ gen_out' = <<generate(gen_response, Task)>>
    /\ UNCHANGED <<gen_response, deciderVars, standardVars, autoVars, buildVars>>
    /\ UNCHANGED trackerVars
    /\ UNCHANGED agentVars
    /\ UNCHANGED recorderVars

GeneratorInit ==
    /\ RecorderUnused
    /\ TrackerUnused
    /\ AgentConstructed([enable_parallel |-> TRUE, hooks |-> FALSE])
    /\ BuildConstructed
    /\ DeciderUnused
    /\ StandardConstructed
    /\ AutoConstructed
    /\ gen_response \in GenResponses
    /\ gen_out = <<>>

GeneratorNext == Generate

SpecGenerator == GeneratorInit /\ [][GeneratorNext]_vars

(***************************************************************************)
(* The Standard strategy as Auto runs it: without a plan                   *)
(* (standard_mode.py).  As for Build, the orchestrator's step() is taken   *)
(* by what it gives the strategy.                                          *)
(***************************************************************************)
\* The result dict of run(), lines 170-175.
StandardResult(taken) == [success |-> TRUE, error |-> FALSE, steps_taken |-> taken]

\* The result dict of run()'s except clause, line 182.
StandardErrorResult == [success |-> FALSE, error |-> TRUE, steps_taken |-> 0]

\* A loop with no budget.
StandardLoopUnbounded ==
    /\ std_pc = "loop"
    /\ std_running

\* run(), lines 121-123 passed: another iteration is made.
StandardLoopContinues ==
    /\ std_pc = "loop"
    /\ steps_taken < std_max_steps
    /\ std_running

\* run(), lines 137-140: one agent.step().  False ends the loop and the
\* result is made (lines 153-175); an exception ends run() in its except
\* clause (lines 177-182).
StandardAgentStep ==
    /\ StandardLoopContinues
    /\ \E outcome \in StepOutcomes :
          CASE outcome = "true" ->
                  /\ steps_taken' = steps_taken + 1
                  /\ UNCHANGED <<std_pc, std_running, std_result>>
            [] outcome = "false" ->
                  /\ std_running' = FALSE
                  /\ std_result' = <<StandardResult(steps_taken)>>
                  /\ std_pc' = "done"
                  /\ UNCHANGED steps_taken
            [] outcome = "raised" ->
                  /\ std_running' = FALSE
                  /\ std_result' = <<StandardErrorResult>>
                  /\ std_pc' = "done"
                  /\ UNCHANGED steps_taken
    /\ UNCHANGED <<std_max_steps, deciderVars, generatorVars, autoVars, buildVars>>
    /\ UNCHANGED trackerVars
    /\ UNCHANGED agentVars
    /\ UNCHANGED recorderVars

\* run(), lines 121-123 and 153-175: the loop ends by the budget or by a
\* stop, and the result is made.
StandardFinish ==
    /\ std_pc = "loop"
    /\ steps_taken >= std_max_steps \/ ~std_running
    /\ std_running' = FALSE
    /\ std_result' = <<StandardResult(steps_taken)>>
    /\ std_pc' = "done"
    /\ UNCHANGED <<std_max_steps, steps_taken, deciderVars, generatorVars, autoVars,
                   buildVars>>
    /\ UNCHANGED trackerVars
    /\ UNCHANGED agentVars
    /\ UNCHANGED recorderVars

(***************************************************************************)
(* The Auto strategy (auto_mode.py).                                       *)
(***************************************************************************)
\* The response texts Auto is run on: one for each thing json.loads can make
\* of a text (an error, a JSON object, a JSON value that is no object).  The
\* parsers of the Decider and of the Plan Generator tell no other text from
\* these three.
AutoTexts == {<<>>, <<"object">>, <<"list">>}

\* The outcomes should_plan and generate can have, over the responses with
\* these texts and any payload.
ShouldPlanOutcomes == {should_plan(r) : r \in DeciderResponsesOver(AutoTexts)}

GenerateOutcomes == {generate(r, Task) : r \in GenResponsesOver(AutoTexts)}

\* A run that plans whatever the decision says.
AlwaysPlans(decision) == TRUE

\* if decision.needs_planning
NeedsPlanning(decision) == decision.needs_planning

\* if self.last_plan: Plan has __len__, so a plan without steps counts as none.
Truthy(p) == p # <<>> /\ Len(p[1].steps) > 0

\* The result run() returns, lines 61-67: the result of the strategy it
\* delegated to, with the decision, used_planning and, if any, the plan.
AutoResult(inner, decision, p) ==
    [success |-> inner.success, error |-> inner.error, inner |-> <<inner>>,
     decision |-> <<decision>>, used_planning |-> <<decision.needs_planning>>,
     plan |-> IF Truthy(p) THEN p ELSE <<>>]

\* The result of run()'s except clause, lines 73-79.
AutoErrorResult(decision) ==
    [success |-> FALSE, error |-> TRUE, inner |-> <<>>,
     decision |-> decision, used_planning |-> <<>>, plan |-> <<>>]

\* run(), line 39.
AutoRunning(budget) ==
    /\ auto_pc = "start"
    /\ auto_max_steps = budget
    /\ auto_running = TRUE
    /\ calls = NoCalls
    /\ last_decision = <<>>
    /\ last_plan = <<>>
    /\ build_arg = <<>>
    /\ auto_result = <<>>

\* run(), lines 42-45: the one call of should_plan.  Were it to raise, run()
\* would end in its except clause (lines 69-79).
AutoDecide ==
    /\ auto_pc = "start"
    /\ calls' = [calls EXCEPT !.decider = @ + 1]
    /\ \E out \in ShouldPlanOutcomes :
          IF out.raised = "none"
          THEN /\ last_decision' = <<out.value>>
               /\ auto_pc' = "decided"
               /\ UNCHANGED <<auto_running, auto_result>>
          ELSE /\ auto_running' = FALSE
               /\ auto_result' = <<AutoErrorResult(last_decision)>>
               /\ auto_pc' = "done"
               /\ UNCHANGED last_decision
    /\ UNCHANGED <<auto_max_steps, last_plan, build_arg>>
    /\ UNCHANGED <<deciderVars, generatorVars, standardVars, buildVars>>
    /\ UNCHANGED trackerVars
    /\ UNCHANGED agentVars
    /\ UNCHANGED recorderVars

\* run(), lines 47-50: the decision asks for a plan; the call of generate.
AutoGenerate ==
    /\ auto_pc = "decided"
    /\ NeedsPlanning(last_decision[1])
    /\ calls' = [calls EXCEPT !.generator = @ + 1]
    /\ \E out \in GenerateOutcomes :
          IF out.raised = "none"
          THEN /\ last_plan' = <<out.value>>
               /\ auto_pc' = "planned"
               /\ UNCHANGED <<auto_running, auto_result>>
          ELSE /\ auto_running' = FALSE
               /\ auto_result' = <<AutoErrorResult(last_decision)>>
               /\ auto_pc' = "done"
               /\ UNCHANGED last_plan
    /\ UNCHANGED <<auto_max_steps, last_decision, build_arg>>
    /\ UNCHANGED <<deciderVars, generatorVars, standardVars, buildVars>>
    /\ UNCHANGED trackerVars
    /\ UNCHANGED agentVars
    /\ UNCHANGED recorderVars

\* run(), lines 52-55, with BuildMode.run, lines 46-51: Build is called with
\* the plan and max_steps, and sets itself and its tracker up.
AutoBuild ==
    /\ auto_pc = "planned"
    /\ calls' = [calls EXCEPT !.build = @ + 1]
    /\ build_arg' = last_plan
    /\ plan' = last_plan[1].steps
    /\ steps_progress' = InitializeSteps(last_plan[1].steps)
    /\ tracker_ret' = Ret(TRUE)
    /\ build_pc' = "loop"
    /\ build_max_steps' = auto_max_steps
    /\ build_index' = 1
    /\ total_agent_steps' = 0
    /\ steps_used' = 0
    /\ max_for_step' = 0
    /\ is_running' = TRUE
    /\ build_result' = <<>>
    /\ handled' = <<>>
    /\ auto_pc' = "building"
    /\ UNCHANGED <<auto_max_steps, auto_running, last_decision, last_plan, auto_result>>
    /\ UNCHANGED <<deciderVars, generatorVars, standardVars>>
    /\ UNCHANGED agentVars
    /\ UNCHANGED recorderVars

\* run(), lines 56-59, with StandardMode.run, lines 92-119: the decision asks
\* for no plan; Standard is called with max_steps and no plan.
AutoStandard ==
    /\ auto_pc = "decided"
    /\ ~NeedsPlanning(last_decision[1])
    /\ calls' = [calls EXCEPT !.standard = @ + 1]
    /\ last_plan' = <<>>
    /\ std_pc' = "loop"
    /\ std_max_steps' = auto_max_steps
    /\ steps_taken' = 0
    /\ std_running' = TRUE
    /\ std_result' = <<>>
    /\ auto_pc' = "standard"
    /\ UNCHANGED <<auto_max_steps, auto_running, last_decision, build_arg, auto_result>>
    /\ UNCHANGED <<deciderVars, generatorVars, buildVars>>
    /\ UNCHANGED trackerVars
    /\ UNCHANGED agentVars
    /\ UNCHANGED recorderVars

\* run(), lines 61-67: the strategy delegated to has returned; the decision
\* and the plan are merged into its result.
AutoReturn ==
    /\ \/ auto_pc = "building" /\ build_pc = "done"
       \/ auto_pc = "standard" /\ std_pc = "done"
    /\ auto_result' =
          <<AutoResult(IF auto_pc = "building"
                       THEN [success |-> build_result[1].success,
                             error |-> build_result[1].error]
                       ELSE [success |-> std_result[1].success,
                             error |-> std_result[1].error],
                       last_decision[1], last_plan)>>
    /\ auto_running' = FALSE
    /\ auto_pc' = "done"
    /\ UNCHANGED <<auto_max_steps, calls, last_decision, last_plan, build_arg>>
    /\ UNCHANGED <<deciderVars, generatorVars, standardVars, buildVars>>
    /\ UNCHANGED trackerVars
    /\ UNCHANGED agentVars
    /\ UNCHANGED recorderVars

\* AutoMode.stop(), called from outside while run() is under way: the flags
\* of Auto, Build and Standard are cleared.
AutoStop ==
    /\ auto_pc \notin {"idle", "done"}
    /\ auto_running \/ is_running \/ std_running
    /\ auto_running' = FALSE
    /\ is_running' = FALSE
    /\ std_running' = FALSE
    /\ UNCHANGED <<auto_pc, auto_max_steps, calls, last_decision, last_plan, build_arg,
                   auto_result>>
    /\ UNCHANGED <<std_pc, std_max_steps, steps_taken, std_result>>
    /\ UNCHANGED <<build_pc, build_max_steps, build_index, total_agent_steps, steps_used,
                   max_for_step, build_result, handled>>
    /\ UNCHANGED <<deciderVars, generatorVars>>
    /\ UNCHANGED trackerVars
    /\ UNCHANGED agentVars
    /\ UNCHANGED recorderVars

AutoInit ==
    /\ RecorderUnused
    /\ TrackerUnused
    /\ AgentConstructed([enable_parallel |-> TRUE, hooks |-> FALSE])
    /\ BuildConstructed
    /\ DeciderUnused
    /\ GeneratorUnused
    /\ StandardConstructed
    /\ \E budget \in 0..MaxBuildBudget : AutoRunning(budget)

AutoNext ==
    \/ AutoDecide
    \/ AutoGenerate
    \/ AutoBuild
    \/ AutoStandard
    \/ AutoReturn
    \/ AutoStop
    \/ BuildFinish
    \/ BuildBlockStep
    \/ BuildStartStep
    \/ BuildAgentStep
    \/ BuildStepStopped
    \/ StandardAgentStep
    \/ StandardFinish

SpecAuto == AutoInit /\ [][AutoNext]_vars

(***************************************************************************)
(* Trajectory recorder (utils/trajectory.py), called the way Agent.run and *)
(* StandardMode.run call the recorder of their agent: start(task), then    *)
(* per step record_thought, record_action, record_observation, then end;   *)
(* a run that an exception leaves makes no end call.                       *)
(***************************************************************************)
\* Sessions begun on one recorder, steps of a session, seconds of the clock.
MaxSessions == 2
MaxSessionSteps == 2
MaxClock == 1

RecTasks == {"t1", "t2"}

\* The recorder has a save_dir; filename: was one given.
RecorderCfgs == [filename : BOOLEAN, fmt : {"json", "jsonl"}]

\* TrajectoryEvent(timestamp, step, phase, content)
TrajectoryEvent(timestamp, step, phase, content) ==
    [timestamp |-> timestamp, step |-> step, phase |-> phase, content |-> content]

\* _record(phase, content): self._events.append(ev), as events' value for a
\* recorder whose _step is step.
Record(events, step, phase, content) ==
    Append(events, TrajectoryEvent(now, step, phase, content))

\* _auto_path: the given filename, or a name with the time to the second.
AutoPath ==
    IF rec_cfg.filename THEN <<"filename">>
    ELSE <<"trajectory", now, rec_cfg.fmt>>

\* save: what is written for task and events, a JSON object for "json", a
\* header line and one line per event for "jsonl".
FileContent(task, events) ==
    IF rec_cfg.fmt = "json"
    THEN [fmt |-> "json", object |-> [task |-> task, events |-> events]]
    ELSE [fmt |-> "jsonl",
          lines |-> <<[task |-> task, meta |-> <<>>]>> \o events]

\* open(path, 'w') and the write: the file is created or replaced.
WriteFile(fs, path, content) ==
    [n \in DOMAIN fs \cup {path} |-> IF n = path THEN content ELSE fs[n]]

\* The task a trajectory file names and the events it lists.
FileTask(file) ==
    IF file.fmt = "json" THEN file.object.task ELSE file.lines[1].task

FileEvents(file) ==
    IF file.fmt = "json" THEN file.object.events ELSE Tail(file.lines)

Call(op, arg) == [op |-> op, arg |-> arg]

\* Steps (observations) of the caller's session so far.
SessionSteps == Cardinality({k \in DOMAIN session : session[k].op = "record_observation"})

\* start(task), lines 45-52, called at the beginning of a run.
RecorderStart ==
    /\ drv_pc = "idle"
    /\ sessions < MaxSessions
    /\ \E task \in RecTasks :
          /\ IF rec_started
             THEN UNCHANGED <<rec_started, rec_step, rec_task, rec_events>>
             ELSE /\ rec_started' = TRUE
                  /\ rec_step' = 0
                  /\ rec_task' = <<task>>
                  /\ rec_events' = Record(rec_events, 0, "start", <<task>>)
          /\ session' = <<Call("start", <<task>>)>>
    /\ written' = <<>>
    /\ sessions' = sessions + 1
    /\ drv_pc' = "record_thought"
    /\ UNCHANGED <<rec_cfg, files, now>>
    /\ UNCHANGED <<trackerVars, agentVars, buildVars, deciderVars, generatorVars,
                   standardVars, autoVars>>

\* record_thought(thought), lines 65-66.
RecordThought ==
    /\ \/ drv_pc = "record_thought"
       \/ drv_pc = "end" /\ SessionSteps < MaxSessionSteps
    /\ rec_events' = Record(rec_events, rec_step, "thought", <<"thought">>)
    /\ session' = Append(session, Call("record_thought", <<>>))
    /\ drv_pc' = "record_action"
    /\ UNCHANGED <<rec_cfg, rec_started, rec_step, rec_task, files, now, written, sessions>>
    /\ UNCHANGED <<trackerVars, agentVars, buildVars, deciderVars, generatorVars,
                   standardVars, autoVars>>

\* record_action(name, parameters), lines 68-69.
RecordAction ==
    /\ drv_pc = "record_action"
    /\ rec_events' = Record(rec_events, rec_step, "action", <<"name", "parameters">>)
    /\ session' = Append(session, Call("record_action", <<>>))
    /\ drv_pc' = "record_observation"
    /\ UNCHANGED <<rec_cfg, rec_started, rec_step, rec_task, files, now, written, sessions>>
    /\ UNCHANGED <<trackerVars, agentVars, buildVars, deciderVars, generatorVars,
                   standardVars, autoVars>>

\* record_observation(observation), lines 71-74.
RecordObservation ==
    /\ drv_pc = "record_observation"
    /\ rec_events' = Record(rec_events, rec_step, "observation", <<"observation">>)
    /\ rec_step' = rec_step + 1
    /\ session' = Append(session, Call("record_observation", <<>>))
    /\ drv_pc' = "end"
    /\ UNCHANGED <<rec_cfg, rec_started, rec_task, files, now, written, sessions>>
    /\ UNCHANGED <<trackerVars, agentVars, buildVars, deciderVars, generatorVars,
                   standardVars, autoVars>>

\* end(status), lines 76-80, and save(), lines 85-99.
RecorderEnd ==
    /\ drv_pc = "end"
    /\ LET events == Record(rec_events, rec_step, "end", <<"completed">>)
       IN  /\ rec_events' = events
           /\ files' = WriteFile(files, AutoPath, FileContent(rec_task, events))
    /\ rec_started' = FALSE
    /\ written' = Append(written, AutoPath)
    /\ session' = Append(session, Call("end", <<>>))
    /\ drv_pc' = "idle"
    /\ UNCHANGED <<rec_cfg, rec_step, rec_task, now, sessions>>
    /\ UNCHANGED <<trackerVars, agentVars, buildVars, deciderVars, generatorVars,
                   standardVars, autoVars>>

\* An exception leaves the run (agent.py 231-237 has no finally; the except
\* branch of StandardMode.run, lines 162-168, makes no end call).
RunAbandoned ==
    /\ drv_pc \in {"record_thought", "record_action", "record_observation", "end"}
    /\ drv_pc' = "idle"
    /\ UNCHANGED <<rec_cfg, rec_started, rec_step, rec_task, rec_events, files, now,
                   session, written, sessions>>
    /\ UNCHANGED <<trackerVars, agentVars, buildVars, deciderVars, generatorVars,
                   standardVars, autoVars>>

\* A second passes.
Tick ==
    /\ now < MaxClock
    /\ now' = now + 1
    /\ UNCHANGED <<rec_cfg, rec_started, rec_step, rec_task, rec_events, files,
                   drv_pc, session, written, sessions>>
    /\ UNCHANGED <<trackerVars, agentVars, buildVars, deciderVars, generatorVars,
                   standardVars, autoVars>>

RecorderInit ==
    /\ TrackerUnused
    /\ AgentConstructed([enable_parallel |-> TRUE, hooks |-> TRUE])
    /\ BuildConstructed
    /\ DeciderUnused
    /\ GeneratorUnused
    /\ StandardConstructed
    /\ AutoConstructed
    /\ \E c \in RecorderCfgs : RecorderConstructed(c)

RecorderNext ==
    \/ RecorderStart
    \/ RecordThought
    \/ RecordAction
    \/ RecordObservation
    \/ RecorderEnd
    \/ RunAbandoned
    \/ Tick

SpecRecorder == RecorderInit /\ [][RecorderNext]_vars


(***************************************************************************)
(* Claims about the plan state tracker.                                    *)
(***************************************************************************)
\* The dependency ids declared by the step the tracker resolves for step_id.
DeclaredDependencies(step_id) == FirstStepWithId(plan, step_id).dependencies

AllDependenciesCompleted(step_id) ==
    \A k \in 1..Len(DeclaredDependencies(step_id)) :
        LET d == DeclaredDependencies(step_id)[k]
        IN  d \in DOMAIN steps_progress /\ steps_progress[d].status = COMPLETED

\* C1: check_dependencies(S) on a known step S returns true exactly when every
\* dependency id declared by S has status COMPLETED (judged in the state the
\* call starts in); when some declared dependency is not COMPLETED, or has no
\* entry in the plan, it returns false and S is BLOCKED afterwards; when it
\* returns true no status changes.
C1_CheckDependencies ==
    [][\A id \in StepIds :
          (Known(id) /\ check_dependencies(id)) =>
              /\ tracker_ret'.ret = AllDependenciesCompleted(id)
              /\ ~AllDependenciesCompleted(id) => steps_progress'[id].status = BLOCKED
              /\ AllDependenciesCompleted(id) => steps_progress' = steps_progress]_vars

\* C1 witness: check_dependencies has returned false on a step that declares
\* two dependencies, one COMPLETED and one not, and the step is BLOCKED.
C1_Witness ==
    /\ tracker_ret = Ret(FALSE)
    /\ \E id \in DOMAIN steps_progress :
          /\ steps_progress[id].status = BLOCKED
          /\ Len(steps_progress[id].observation) = 2
          /\ Len(DeclaredDependencies(id)) = 2
          /\ \E k \in 1..2 :
                LET d == DeclaredDependencies(id)[k]
                IN  d \in DOMAIN steps_progress /\ steps_progress[d].status = COMPLETED
          /\ \E k \in 1..2 : DeclaredDependencies(id)[k] \notin DOMAIN steps_progress

(***************************************************************************)
(* Claims about memory truncation.                                         *)
(***************************************************************************)
\* The two constraints of the history, on the history itself.
BothConstraintsHold(m) ==
    Len(m) <= MaxMemoryMessages /\ SumTokens(m) <= ContextWindowTokens

\* C4: truncation started from a history of at least 2 messages never leaves
\* fewer than 2; when it returns, both constraints hold or exactly 2 messages
\* remain; and no message is removed in a state where both constraints
\* already hold.
C4_TruncationStops ==
    /\ [](pc = "ask" => /\ Len(memory) >= 2
                        /\ BothConstraintsHold(memory) \/ Len(memory) = 2)
    /\ [][Len(memory') < Len(memory) =>
            /\ Len(memory') >= 2
            /\ Len(memory') = Len(memory) - 1
            /\ ~BothConstraintsHold(memory)]_vars

\* C4 witness: truncation has returned after removing messages and stopped
\* with more than 2 left, both constraints satisfied.
C4_Witness ==
    /\ pc = "ask"
    /\ Len(memory) > 2
    /\ Len(memory) < Len(appended) + 1
    /\ BothConstraintsHold(memory)

IsSuffix(s, t) == \E k \in 0..Len(t) : s = SubSeq(t, k + 1, Len(t))

\* C5: the first message is always the original system message, the rest of
\* the history is a contiguous most-recent suffix of the messages appended so
\* far, in their order; a removal takes away exactly the second entry, the
\* oldest message after the system message.
C5_SystemKeptOldestRemoved ==
    /\ [](/\ memory[1] = SystemMessage
          /\ IsSuffix(Tail(memory), appended))
    /\ [][Len(memory') < Len(memory) =>
            memory' = <<memory[1]>> \o SubSeq(memory, 3, Len(memory))]_vars

\* C5 witness: a second step() has returned true after truncation removed
\* messages from the history.
C5_Witness ==
    /\ pc = "loop"
    /\ step_ret = "true"
    /\ steps_done = 2
    /\ Len(memory) < Len(appended) + 1
    /\ memory[1] = SystemMessage

(***************************************************************************)
(* Claims about dispatch.                                                  *)
(***************************************************************************)
\* What worker i's future holds once it is done.
FutureSegment(i) ==
    IF futures[i].raised THEN ErrorSegment(futures[i].exc)
    ELSE futures[i].segment

\* C2: the list that parallel dispatch returns is in submission order under
\* every completion order: its i-th segment is the one produced for the i-th
\* dispatched action (that action's result, or that action's error).
C2_ParallelOrder ==
    (pc = "observe" /\ dispatch = "parallel") =>
        /\ Len(observations) = Len(futures)
        /\ \A i \in 1..Len(observations) :
              /\ observations[i] = FutureSegment(i)
              /\ ~futures[i].raised => observations[i].label = actions[i].name

\* C2 witness: parallel dispatch has returned; the second worker was
\* collected first, its tool raised, and the first worker's tool returned data.
C2_Witness ==
    /\ pc = "observe"
    /\ dispatch = "parallel"
    /\ Len(results) = 2
    /\ results[1][1] = 2
    /\ observations[1].text[1] = "data"
    /\ observations[2].text[1] = "Error: Tool execution failed"

\* C3: when the worker of an action raises, the list still holds one segment
\* per dispatched action, the raising action's segment is an error segment
\* that names the action ("[B]: Error: ..."), the siblings' segments are what
\* their own workers produced, and a step() that returns returns true.
C3_WorkerErrorInline ==
    /\ (pc = "observe" /\ dispatch = "parallel") =>
          /\ Len(observations) = Len(futures)
          /\ \A i \in 1..Len(observations) :
                IF futures[i].raised
                THEN observations[i].label = actions[i].name
                ELSE observations[i] = futures[i].segment
    /\ (pc = "loop" /\ dispatch = "parallel") => step_ret = "true"

(***************************************************************************)
(* Claims about failures reaching the orchestrator.                        *)
(***************************************************************************)
\* C6: no exception escapes step() or run(), whatever the model interface,
\* the tool boundary, the subscribers and the recorder do.
C6_NoExceptionEscapes == pc # "raised"

\* C7: a raw output that is malformed JSON (no JSON value in it at all) gives
\* the orchestrator a recover_from_error turn, and the step() that consumes it
\* returns true.
C7_MalformedGivesRecover ==
    llm_in = "no_json" =>
        /\ turn = RecoverTurn
        /\ pc = "loop" => step_ret = "true"

\* C8: on a transport or provider failure, obtaining the client included,
\* ask() returns a system_error turn, and the step() that consumes it returns
\* true.
C8_FailureGivesSystemError ==
    llm_in \in {"client_fail", "transport_fail"} =>
        /\ turn = SystemErrorTurn
        /\ pc = "loop" => step_ret = "true"

(***************************************************************************)
(* Claims about the stop signals of a turn.                                *)
(***************************************************************************)
LastMessage(m) == m[Len(m)]

\* ask() has returned a turn to the step() in progress.
TurnReceived == llm_in \notin {"none", "client_fail"}

EffectiveActions(t) ==
    IF Len(t.actions) > 0 THEN t.actions ELSE t.action

NamesFinish(acts) == \E i \in DOMAIN acts : acts[i].name = "finish"

AllowedTransitions ==
    {<<NOT_STARTED, IN_PROGRESS>>, <<NOT_STARTED, BLOCKED>>, <<NOT_STARTED, SKIPPED>>,
     <<IN_PROGRESS, COMPLETED>>, <<IN_PROGRESS, FAILED>>,
     <<BLOCKED, IN_PROGRESS>>}

\* C11: under any sequence of tracker operations a step's status changes only
\* along NOT_STARTED -> {IN_PROGRESS, BLOCKED, SKIPPED}, IN_PROGRESS ->
\* {COMPLETED, FAILED}, BLOCKED -> {IN_PROGRESS}; so a step that is COMPLETED,
\* FAILED or SKIPPED never changes status again.
C11_StatusTransitions ==
    [][\A id \in DOMAIN steps_progress :
          steps_progress'[id].status # steps_progress[id].status =>
              <<steps_progress[id].status, steps_progress'[id].status>>
                  \in AllowedTransitions]_vars

\* The number of tracker entries whose status is COMPLETED.
CompletedCount ==
    Cardinality({id \in DOMAIN steps_progress : steps_progress[id].status = COMPLETED})

\* C12: in every reachable tracker state the overall progress is
\* 100 * (number of steps whose status is COMPLETED) / total_steps (in
\* hundredths of a percent), and it never exceeds 100%.
C12_OverallProgress ==
    /\ get_overall_progress(steps_progress, Len(plan))
          = (CompletedCount * 10000) \div Len(plan)
    /\ get_overall_progress(steps_progress, Len(plan)) <= 10000

\* C12 witness: a plan of two steps, one COMPLETED and the other SKIPPED:
\* the progress is 50%.
C12_Witness ==
    /\ Len(plan) = 2
    /\ DOMAIN steps_progress = {1, 2}
    /\ steps_progress[1].status = COMPLETED
    /\ steps_progress[2].status = SKIPPED
    /\ get_overall_progress(steps_progress, Len(plan)) = 5000

(***************************************************************************)
(* Claims about the Build strategy.                                        *)
(***************************************************************************)
\* C13: across one run of Build, for any plan, the overall progress never
\* gets smaller from one state of the run to the next.
C13_ProgressNonDecreasing ==
    [][get_overall_progress(steps_progress', Len(plan'))
          >= get_overall_progress(steps_progress, Len(plan))]_vars

\* The plan of the scenario: step 2 depends on step 1, step 3 on step 2.
ChainPlan ==
    <<[step_id |-> 1, dependencies |-> <<>>],
      [step_id |-> 2, dependencies |-> <<1>>],
      [step_id |-> 3, dependencies |-> <<2>>]>>

\* The ids a plan step declares as dependencies, and the ids declared by the
\* plan steps that carry one of the ids in S.
DeclaredBy(st) == {st.dependencies[k] : k \in 1..Len(st.dependencies)}

DeclaredByIds(S) ==
    UNION {DeclaredBy(plan[j]) : j \in {i \in 1..Len(plan) : plan[i].step_id \in S}}

\* The dependency chain of a set of ids, followed for n more rounds.
RECURSIVE ChainFrom(_, _)
ChainFrom(S, n) ==
    IF n = 0 THEN S ELSE ChainFrom(S \cup DeclaredByIds(S), n - 1)

\* The dependency chain of the plan step at position i.
DependencyChain(i) == ChainFrom(DeclaredBy(plan[i]), Len(plan))

IsCompleted(id) == id \in DOMAIN steps_progress /\ steps_progress[id].status = COMPLETED

\* Build starts the plan step at position i in this step of the run.
Starts(i) ==
    /\ Len(handled') = Len(handled) + 1
    /\ handled'[Len(handled')].index = i
    /\ handled'[Len(handled')].started

\* C14: with the chain plan, once step 1 is FAILED and steps 2 and 3 have been
\* handled, both are BLOCKED, neither was started, and the result has
\* success=false and progress 0%; and in general Build never starts a step
\* whose dependency chain contains a step that is not COMPLETED.
C14_FailedDependencyBlocks ==
    /\ []((/\ plan = ChainPlan
           /\ build_pc = "done"
           /\ Len(handled) = 3
           /\ steps_progress[1].status = FAILED) =>
              /\ steps_progress[2].status = BLOCKED
              /\ steps_progress[3].status = BLOCKED
              /\ ~handled[2].started
              /\ ~handled[3].started
              /\ build_result[1].success = FALSE
              /\ build_result[1].progress = 0)
    /\ [][\A i \in 1..Len(plan) :
            Starts(i) => \A d \in DependencyChain(i) : IsCompleted(d)]_vars

\* C15: the result of a Build run has success=true exactly when the overall
\* progress is 100% at the end of the run (every one of the total_steps steps
\* COMPLETED); a run that ends short of it, by the budget, a stop, a blocked
\* step or an exception out of step(), returns a result with success=false.
C15_SuccessIffComplete ==
    build_pc = "done" =>
        /\ Len(build_result) = 1
        /\ build_result[1].success = (Len(plan) > 0 /\ CompletedCount = Len(plan))
        /\ build_result[1].has_progress =>
              build_result[1].progress * Len(plan) <= CompletedCount * 10000
        /\ ~is_running

\* C15 witness: a run over a plan of three steps has returned success=true.
C15_Witness ==
    /\ build_pc = "done"
    /\ Len(plan) = 3
    /\ build_result[1].success
    /\ build_result[1].progress = 10000

\* C15 witness of the other side: a run has used up its budget with a step
\* never handled and returned success=false.
C15_BudgetExhausted ==
    /\ build_pc = "done"
    /\ Len(plan) = 2
    /\ Len(handled) = 1
    /\ is_running = FALSE
    /\ total_agent_steps = build_max_steps
    /\ build_result[1].error = FALSE
    /\ build_result[1].success = FALSE

\* The step() invocations made for the first n handled plan steps.
RECURSIVE CallsUpTo(_)
CallsUpTo(n) == IF n = 0 THEN 0 ELSE handled[n].calls + CallsUpTo(n - 1)

\* C16: the step() invocations of a run never exceed max_steps; a plan step
\* gets at most min(5, budget left when it starts) of them; and no plan step is
\* started once max_steps invocations have been made.
C16_BudgetRespected ==
    /\ CallsUpTo(Len(handled)) <= build_max_steps
    /\ \A k \in 1..Len(handled) :
          /\ handled[k].calls <= Min(MaxIterationsPerStep, build_max_steps - CallsUpTo(k - 1))
          /\ handled[k].started => CallsUpTo(k - 1) < build_max_steps

\* C16 witness: a run with max_steps = 6 has given its first plan step 5
\* invocations and its second the 1 that was left.
C16_Witness ==
    /\ build_pc = "done"
    /\ build_max_steps = 6
    /\ Len(handled) >= 2
    /\ handled[1].calls = 5
    /\ handled[2].calls = 1
    /\ handled[2].started

UniqueIds == \A i, j \in 1..Len(plan) : plan[i].step_id = plan[j].step_id => i = j

\* C17: Build handles the plan steps in declared order, each at most once (the
\* k-th step handled is the k-th of the plan); a step found with an unmet
\* dependency is BLOCKED right then and is not started, and it is never
\* handled again: where no other step shares its id it is still BLOCKED in
\* every later state of the run.
C17_DeclaredOrderNoRetry ==
    /\ [](\A k \in 1..Len(handled) :
            /\ handled[k].index = k
            /\ (~handled[k].started /\ UniqueIds) =>
                  steps_progress[plan[k].step_id].status = BLOCKED)
    /\ [][Len(handled') >= Len(handled)
          /\ \A k \in 1..Len(handled) :
                /\ handled'[k].index = handled[k].index
                /\ handled'[k].started = handled[k].started]_vars
    /\ [][(Len(handled') = Len(handled) + 1 /\ ~handled'[Len(handled')].started) =>
            /\ steps_progress'[plan[handled'[Len(handled')].index].step_id].status = BLOCKED
            /\ handled'[Len(handled')].calls = 0]_vars

\* C17 witness: step 2, declared first, depends on step 1, declared second;
\* it was blocked, step 1 was then completed, and the run has ended with
\* step 2 still BLOCKED.
C17_Witness ==
    /\ build_pc = "done"
    /\ Len(plan) = 2
    /\ plan[1] = [step_id |-> 2, dependencies |-> <<1>>]
    /\ plan[2].step_id = 1
    /\ Len(handled) = 2
    /\ ~handled[1].started
    /\ steps_progress[1].status = COMPLETED
    /\ steps_progress[2].status = BLOCKED

(***************************************************************************)
(* Claims about the Decider and the Plan Generator.                        *)
(***************************************************************************)
PlanDecisions ==
    [needs_planning : BOOLEAN, complexity : TaskComplexity, suggested_steps : {2, 5, 7},
     from : {"parsed", "keywords", "keywords_default", "failed"}]

\* Structured parsing gives a classification: the text holds, where the
\* parser looks, one JSON object whose complexity is absent or a level.
StructuredClassification(r) ==
    /\ r.kind = "text"
    /\ ExtractJson(r.text) = "dict"
    /\ Lower(r.payload.complexity) \in TaskComplexity \cup {"absent"}

\* The keyword heuristic gives a classification: the text has a keyword.
KeywordClassification(r) ==
    /\ r.kind = "text"
    /\ TextContains(r, "complex") \/ TextContains(r, "simple")

\* C19: should_plan never raises: whatever the model does (the call raises,
\* the text does not parse, the JSON has an unexpected shape, the complexity
\* is unknown) it returns a PlanDecision, and when neither structured parsing
\* nor the keyword heuristic gives a classification the decision has
\* needs_planning = true.
C19_ShouldPlanNeverRaises ==
    decider_out # <<>> =>
        /\ decider_out[1].raised = "none"
        /\ decider_out[1].value \in PlanDecisions
        /\ (~StructuredClassification(decider_response)
            /\ ~KeywordClassification(decider_response)) =>
              decider_out[1].value.needs_planning = TRUE

\* C19 witness: the response is a JSON list between fences, with no keyword:
\* parsing ends in an exception that _parse_decision does not take, and
\* should_plan has returned its default decision.
C19_Witness ==
    /\ decider_response.kind = "text"
    /\ decider_response.text = <<"fence_json", "list", "fence">>
    /\ decider_response.words = {}
    /\ decider_out # <<>>
    /\ decider_out[1].raised = "none"
    /\ decider_out[1].value = DefaultDecision

\* The model call of generate fails.
PlanCallFails(r) == r.kind = "raises"

\* The response text cannot be parsed into a plan: where the parser looks
\* there is not one JSON object, or its "steps" is no list, or an item of
\* the list is no object.
CannotBeParsed(r) ==
    /\ r.kind = "text"
    /\ \/ ExtractJson(r.text) # "dict"
       \/ r.steps.kind \in {"null", "number", "string"}
       \/ \E i \in 1..Len(r.steps.items) : ~r.steps.items[i].dict

C18_AutoDelegation ==
    /\ calls.decider <= 1
    /\ calls.generator <= 1
    /\ calls.build <= calls.generator
    /\ calls.standard <= 1
    /\ calls.standard = 0 \/ calls.generator = 0
    /\ calls.build = 1 => (build_arg = last_plan /\ plan = last_plan[1].steps)
    /\ auto_pc = "done" =>
          /\ calls.decider = 1
          /\ last_decision # <<>>
          /\ last_decision[1].needs_planning = FALSE =>
                /\ calls.standard = 1
                /\ calls.generator = 0
                /\ calls.build = 0
                /\ last_plan = <<>>
                /\ build_arg = <<>>
                /\ build_pc = "idle"
                /\ auto_result[1].plan = <<>>
          /\ last_decision[1].needs_planning = TRUE =>
                /\ calls.generator = 1
                /\ calls.build = 1
                /\ calls.standard = 0
                /\ std_pc = "idle"
          /\ auto_result[1].decision = last_decision

\* C18 witness: a run whose decision was needs_planning=false has returned
\* the result of Standard with the decision in it.
C18_Witness ==
    /\ auto_pc = "done"
    /\ last_decision[1].needs_planning = FALSE
    /\ calls = [decider |-> 1, generator |-> 0, build |-> 0, standard |-> 1]
    /\ auto_result[1].inner # <<>>
    /\ auto_result[1].decision = last_decision
    /\ auto_result[1].plan = <<>>

\* C18 witness of the other side: a run whose decision was
\* needs_planning=true has returned the result of Build on a two-step plan.
C18_PlannedWitness ==
    /\ auto_pc = "done"
    /\ last_decision[1].needs_planning = TRUE
    /\ calls = [decider |-> 1, generator |-> 1, build |-> 1, standard |-> 0]
    /\ Len(last_plan[1].steps) = 2
    /\ auto_result[1].plan = last_plan
    /\ auto_result[1].success

\* The Plan invariant: the step ids of the plan differ from one another and
\* every dependency id is the id of a step of the plan.
PlanInvariant(steps) ==
    /\ \A i, j \in 1..Len(steps) : steps[i].step_id = steps[j].step_id => i = j
    /\ \A i \in 1..Len(steps) : \A k \in 1..Len(steps[i].dependencies) :
          \E j \in 1..Len(steps) : steps[j].step_id = steps[i].dependencies[k]

\* C21: every Plan that generate returns, and that Build and the tracker then
\* work on, satisfies the Plan invariant: unique step ids, and every
\* dependency id names a step of the same plan.
C21_PlanInvariantHolds ==
    gen_out # <<>> => PlanInvariant(gen_out[1].value.steps)

(***************************************************************************)
(* Claims about subscribers, dispatch and the loop of run().               *)
(***************************************************************************)
\* The actions step() dispatches for the turn in progress.
Dispatched == IF dispatch = "parallel" THEN ActionsToRun(actions) ELSE actions

\* C22: a subscriber (on_thought, on_action, on_observation) or the recorder
\* that raises during step() changes nothing: once the turn is there step()
\* does not end in an exception, and when the dispatch is over every
\* dispatched action has had its tool call and has its own segment, as it
\* would with no subscriber raising.
C22_SubscriberIsolated ==
    /\ TurnReceived => step_ret # "raised"
    /\ pc = "observe" =>
          /\ tool_calls = Dispatched \/ dispatch = "parallel"
          /\ Len(tool_calls) = Len(Dispatched)
          /\ \A i \in 1..Len(observations) : observations[i].label = Dispatched[i].name

\* The number of tool calls made in this step() for the i-th action of the turn.
CallsOf(i) == Cardinality({k \in 1..Len(tool_calls) : tool_calls[k] = actions[i]})

\* C23: in a parallel dispatch of n actions with worker cap c, the first
\* min(n, c) actions of the list, and no others, are dispatched, each once;
\* the actions after them are never executed and have no segment in the
\* observation, and nothing of them is left for a later step().
C23_ParallelCapDrops ==
    /\ dispatch = "parallel" =>
          /\ Len(futures) = Min(Len(actions), MaxParallelTools)
          /\ \A i \in 1..Len(actions) :
                /\ CallsOf(i) <= 1
                /\ i > MaxParallelTools => CallsOf(i) = 0
          /\ \A i \in 1..Len(futures) :
                /\ (futures[i].state # "pending" /\ ~futures[i].raised) <=> CallsOf(i) = 1
                /\ futures[i].state # "pending" /\ ~futures[i].raised =>
                      futures[i].segment.label = actions[i].name
          /\ \A k \in 1..Len(results) : results[k][1] \in 1..Len(futures)
          /\ pc \in {"observe", "loop", "raised"} =>
                /\ Len(observations) = Min(Len(actions), MaxParallelTools)
                /\ \A i \in 1..Len(futures) : futures[i].state = "collected"
    /\ \A k \in 1..Len(tool_calls) : \E i \in 1..Len(Dispatched) : tool_calls[k] = actions[i]
    /\ pc = "step" => (tool_calls = <<>> /\ futures = <<>> /\ actions = <<>>)

\* C23 witness: a parallel dispatch of three actions with a cap of two is
\* over: two tool calls, for the first and the second action, two segments.
C23_Witness ==
    /\ dispatch = "parallel"
    /\ pc = "observe"
    /\ Len(actions) = MaxParallelTools + 1
    /\ Len(observations) = MaxParallelTools
    /\ CallsOf(1) = 1
    /\ CallsOf(2) = 1
    /\ CallsOf(3) = 0

(***************************************************************************)
(* Claims about cancellation and budgets of the strategies.                *)
(***************************************************************************)
\* stop() has been called on the Auto run under way: Auto's is_running is set
\* at the start of run() and cleared only by stop() and at the return.
StopCalled == auto_pc \notin {"idle", "done"} /\ ~auto_running

\* This step of the run begins an agent.step(): for Build, one more
\* invocation for the plan step in hand; for Standard, one more step taken, or
\* a step() that ended the loop.
StepBegun ==
    \/ Len(handled') = Len(handled) /\ handled' # handled
    \/ steps_taken' # steps_taken
    \/ StandardLoopContinues /\ std_result' # std_result

\* C24: once stop() has been called on a strategy whose run() has begun (for
\* Auto also while it decides or generates the plan), no agent.step() is
\* begun any more.
C24_StopCancels == [][StopCalled => ~StepBegun]_vars

\* run() is over: it has returned, or an exception has left it.
RunOver == pc \in {"returned", "raised"}

\* C25: with every model call and tool call returning, run(task) ends; it
\* makes at most max_steps step() calls, one model call in each, and begins no
\* step() after one that returned false.
C25_RunTerminates ==
    /\ <>RunOver
    /\ [](steps_done <= MaxSteps /\ model_calls <= steps_done)
    /\ [][(pc = "loop" /\ step_ret = "false") => steps_done' = steps_done]_vars

\* C25 witness: run() has returned after max_steps calls of step(), the last
\* of which returned true.
C25_Witness ==
    /\ pc = "returned"
    /\ steps_done = MaxSteps
    /\ model_calls = MaxSteps
    /\ step_ret = "true"

TrackerOperation(step_id) ==
    \/ start_step(step_id)
    \/ complete_step(step_id)
    \/ fail_step(step_id)
    \/ skip_step(step_id)
    \/ block_step(step_id)
    \/ check_dependencies(step_id)
    \/ \E subtask_name \in SubtaskNames, completed \in BOOLEAN :
          update_subtask(step_id, subtask_name, completed)

\* C27: a tracker operation (start, complete, fail, skip, block,
\* check_dependencies, update_subtask) called with a step_id that is no
\* step's id returns False and leaves every StepProgress entry, and the
\* overall progress, as they were.
C27_UnknownIdIsNoOp ==
    [][\A step_id \in (StepIds \cup {UnknownStepId}) \ {plan[i].step_id : i \in DOMAIN plan} :
          TrackerOperation(step_id) =>
              /\ tracker_ret' = Ret(FALSE)
              /\ steps_progress' = steps_progress
              /\ get_overall_progress(steps_progress', Len(plan'))
                    = get_overall_progress(steps_progress, Len(plan))]_vars

\* C27 witness: every step of a two-step plan is COMPLETED and one has a
\* completed subtask, and the last operation returned False: it was called
\* with an id that is not in the plan (a failing check_dependencies on a
\* step of the plan leaves that step BLOCKED).
C27_Witness ==
    /\ DOMAIN steps_progress = {1, 2}
    /\ \A id \in DOMAIN steps_progress : steps_progress[id].status = COMPLETED
    /\ steps_progress[1].subtask_completed = 1
    /\ tracker_ret = Ret(FALSE)

\* The segment at position i of the observations is what tools.call returned
\* for the action at that position.
FromCall(i) == observations[i].label = Dispatched[i].name

\* C28: tools.call never raises: whatever a registered tool does, call
\* returns; for a name that is not registered the return value is the
\* "not found" error string whatever the tools would do (none is invoked),
\* and a registered tool that raises, a TypeError on invalid parameters
\* included, gives an error string.
C28_CallNeverRaises ==
    /\ \A name \in ActionNames \cup RegisteredTools, behaviour \in ToolBehaviours :
          /\ call(name, 1, behaviour)[1] # "raise"
          /\ name \notin RegisteredTools =>
                call(name, 1, behaviour) = <<"Error: Tool not found", name>>
    /\ \A i \in 1..Len(observations) :
          FromCall(i) =>
             /\ observations[i].text[1] # "raise"
             /\ Dispatched[i].name \notin RegisteredTools =>
                   observations[i].text = <<"Error: Tool not found", Dispatched[i].name>>

\* C28 witness: a turn of three actions has been executed: the tool of the
\* first raised, the second names no registered tool, the third was called
\* with invalid parameters; each gave its error string.
C28_Witness ==
    /\ pc = "observe"
    /\ Len(observations) = 3
    /\ Dispatched[1].name = "read_file"
    /\ observations[1].text = <<"Error: Tool execution failed", "read_file">>
    /\ Dispatched[2].name = "no_such_tool"
    /\ observations[2].text = <<"Error: Tool not found", "no_such_tool">>
    /\ Dispatched[3].name = "read_file"
    /\ observations[3].text = <<"Error: Invalid parameters for tool", "read_file">>

\* The calls of a session start(task), record_thought, record_action,
\* record_observation, end.
SessionCalls(task) ==
    <<Call("start", <<task>>), Call("record_thought", <<>>), Call("record_action", <<>>),
      Call("record_observation", <<>>), Call("end", <<>>)>>

Phases(events) == [k \in DOMAIN events |-> events[k].phase]

\* C29: a session start(task), record_thought, record_action,
\* record_observation, end on a recorder with a save directory writes one
\* file, at end() and not before; that file names the task and lists the
\* events of the session in the order they were recorded, the start event
\* (of this task) first and the end event last.
C29_SessionFile ==
    /\ drv_pc # "idle" => written = <<>>
    /\ \A task \in RecTasks :
          (drv_pc = "idle" /\ session = SessionCalls(task)) =>
             /\ Len(written) = 1
             /\ written[1] \in DOMAIN files
             /\ FileTask(files[written[1]]) = <<task>>
             /\ Phases(FileEvents(files[written[1]]))
                   = <<"start", "thought", "action", "observation", "end">>
             /\ FileEvents(files[written[1]])[1].content = <<task>>

\* C30: Build.run never lets an exception out: neither the construction of
\* the plan tracker nor a step() that raises ends run() with an exception;
\* a run that met one returns a result with success false and an error
\* text, and is_running is false afterwards.
C30_BuildNeverRaises ==
    /\ build_pc # "raised"
    /\ (build_pc = "done" /\ build_result[1].error) =>
          /\ ~build_result[1].success
          /\ ~is_running

\* Messages with the given role among those appended since construction.
AppendedWithRole(role) ==
    Cardinality({i \in DOMAIN appended : appended[i].role = role})

\* The current step() is over: it returned or an exception left it.
StepOver == steps_done >= 1 /\ (pc = "raised" \/ (pc = "loop" /\ step_ret # "none"))

\* memory' is memory with one message of the role added at its end.
AppendsOne(role) ==
    /\ Len(memory') = Len(memory) + 1
    /\ SubSeq(memory', 1, Len(memory)) = memory
    /\ memory'[Len(memory')].role = role

\* C31: each step() appends exactly one assistant message, at the model
\* call; it appends exactly one user message besides, as its last act, if
\* and only if it returns true; but for the removals of the truncation at
\* its start it changes memory in no other way.  (run() appends the task
\* message before the first step(); a step() that returns false or is left
\* by an exception is the last one of a run.)
C31_StepMemoryEffect ==
    /\ [](StepOver =>
            /\ AppendedWithRole("assistant") = steps_done
            /\ AppendedWithRole("user") =
                  1 + (steps_done - 1) + (IF step_ret = "true" THEN 1 ELSE 0))
    /\ [][memory' # memory =>
            \/ pc = "idle" /\ AppendsOne("user")
            \/ pc = "truncate" /\ memory' = RemoveAt(memory, 2)
            \/ pc = "ask" /\ AppendsOne("assistant") /\ model_calls' = model_calls + 1
            \/ pc = "observe" /\ AppendsOne("user") /\ step_ret' = "true"]_vars

\* The dispatch of the current step() is over: its segments are being
\* joined, or step() has returned true, or an exception has left it.
DispatchOver ==
    \/ pc = "observe"
    \/ pc = "loop" /\ step_ret = "true"
    \/ pc = "raised" /\ step_ret = "raised"

\* C32: step() dispatches concurrently if and only if parallel dispatch is
\* enabled and the turn has more than one action; otherwise the tools are
\* called one at a time in list order, a call beginning only when the one
\* before it has returned its segment, and every action of the list is
\* executed, however long the list is.
C32_DispatchChoice ==
    /\ dispatch # "none" =>
          (dispatch = "parallel" <=> (cfg.enable_parallel /\ Len(actions) > 1))
    /\ dispatch = "sequential" =>
          /\ Len(tool_calls) <= Len(actions)
          /\ tool_calls = SubSeq(actions, 1, Len(tool_calls))
          /\ Len(observations) = Len(tool_calls)
          /\ DispatchOver => tool_calls = actions

\* Every step the plan step at position i declares as a dependency is
\* COMPLETED.
DependenciesCompleted(i) == \A d \in DeclaredBy(plan[i]) : IsCompleted(d)

\* C33: for a plan with unique step ids, in every state of a Build run a
\* step is IN_PROGRESS or COMPLETED only if every step it declares as a
\* dependency is COMPLETED, and the plan steps step() was invoked for have
\* every declared dependency COMPLETED.
C33_DependencyGating ==
    (build_pc \in {"loop", "exec", "done"} /\ UniqueIds) =>
        /\ \A i \in 1..Len(plan) :
              steps_progress[plan[i].step_id].status \in {IN_PROGRESS, COMPLETED} =>
                  DependenciesCompleted(i)
        /\ \A k \in 1..Len(handled) :
              /\ handled[k].calls > 0 => DependenciesCompleted(handled[k].index)
              /\ ~DependenciesCompleted(handled[k].index) =>
                    /\ ~handled[k].started
                    /\ steps_progress[plan[handled[k].index].step_id].status = BLOCKED

\* C33 witness: in the chain plan steps 1 and 2 were run and completed in
\* turn and step 3 is being executed, after one step() made for it.
C33_Witness ==
    /\ plan = ChainPlan
    /\ build_pc = "exec"
    /\ Len(handled) = 3
    /\ handled[1].calls > 0
    /\ handled[2].calls > 0
    /\ handled[3].calls = 1
    /\ steps_progress[1].status = COMPLETED
    /\ steps_progress[2].status = COMPLETED
    /\ steps_progress[3].status = IN_PROGRESS

\* C34: when the iteration loop of a plan step Build started ends (step()
\* returned false, the done heuristic matched, the cap of the step or the
\* budget was reached, or stop() was called, after zero iterations too) the
\* step is marked COMPLETED; Build marks no step FAILED or SKIPPED, and
\* after a run that no exception ended every step is NOT_STARTED, BLOCKED or
\* COMPLETED.
C34_StartedStepsCompleted ==
    /\ [][(build_pc = "exec" /\ build_pc' = "loop") =>
            /\ handled[Len(handled)].started
            /\ steps_progress'[CurrentStep.step_id].status = COMPLETED]_vars
    /\ [](\A id \in DOMAIN steps_progress :
            steps_progress[id].status \notin {FAILED, SKIPPED})
    /\ []((build_pc = "done" /\ ~build_result[1].error) =>
            \A id \in DOMAIN steps_progress :
                steps_progress[id].status \in {NOT_STARTED, BLOCKED, COMPLETED})

\* C34 witness: the run was stopped after the first plan step was started
\* and before any step() was made for it; the step is COMPLETED and the run
\* has returned, the second plan step never handled.
C34_Witness ==
    /\ build_pc = "done"
    /\ ~build_result[1].error
    /\ Len(plan) = 2
    /\ UniqueIds
    /\ Len(handled) = 1
    /\ handled[1].started
    /\ handled[1].calls = 0
    /\ steps_progress[plan[1].step_id].status = COMPLETED
    /\ steps_progress[plan[2].step_id].status = NOT_STARTED

MaxLivePlanSteps == 2

\* The plans a run is followed to its end on: the trackable plans of up to
\* MaxLivePlanSteps steps.
LivePlans == {p \in BuildPlans : Len(p) <= MaxLivePlanSteps /\ ~TrackerRaises(p)}

\* run(task, plan, max_steps) has executed lines 46-51: is_running is set
\* and the tracker is made for the plan.
BuildLiveInit ==
    /\ RecorderUnused
    /\ AgentConstructed([enable_parallel |-> TRUE, hooks |-> FALSE])
    /\ DeciderUnused
    /\ GeneratorUnused
    /\ StandardConstructed
    /\ AutoConstructed
    /\ plan \in LivePlans
    /\ steps_progress = InitializeSteps(plan)
    /\ tracker_ret = Ret(TRUE)
    /\ build_pc = "loop"
    /\ build_max_steps \in 0..MaxBuildBudget
    /\ build_index = 1
    /\ total_agent_steps = 0
    /\ steps_used = 0
    /\ max_for_step = 0
    /\ is_running = TRUE
    /\ build_result = <<>>
    /\ handled = <<>>

BuildLiveNext ==
    \/ BuildFinish
    \/ BuildBlockStep
    \/ BuildStartStep
    \/ BuildAgentStep
    \/ BuildStepStopped
    \/ BuildStop

\* run() is one thread of straight-line code: while a line of it can be
\* executed, one is.  stop() comes from outside and nothing makes it come.
SpecBuildLive ==
    BuildLiveInit /\ [][BuildLiveNext]_vars
    /\ WF_vars(BuildFinish \/ BuildBlockStep \/ BuildStartStep \/ BuildAgentStep
                  \/ BuildStepStopped)

\* The plan has at least one step, no two steps share an id, and every
\* dependency is the id of a step declared earlier.
WellFormedPlan ==
    /\ Len(plan) >= 1
    /\ UniqueIds
    /\ \A i \in 1..Len(plan) : \A d \in DeclaredBy(plan[i]) :
          \E j \in 1..(i - 1) : plan[j].step_id = d

\* run() has just begun on a well-formed plan with a budget above
\* max_iterations_per_step * (n - 1).
BuildBegun ==
    /\ build_pc = "loop"
    /\ handled = <<>>
    /\ is_running
    /\ WellFormedPlan
    /\ build_max_steps > MaxIterationsPerStep * (Len(plan) - 1)

\* stop() was called during the run; a step() raised.
BuildStopped == build_pc \in {"loop", "exec"} /\ ~is_running
BuildStepRaised == build_pc = "done" /\ build_result[1].error

\* run() has returned success with every step COMPLETED and progress 100%.
BuildSucceeded ==
    /\ build_pc = "done"
    /\ build_result[1].success
    /\ build_result[1].progress = 10000
    /\ \A i \in 1..Len(plan) : IsCompleted(plan[i].step_id)

\* C35: a Build run begun on a plan of n >= 1 steps with unique ids whose
\* dependencies all name earlier-declared steps, with max_steps > 5 * (n - 1),
\* eventually returns success=true with progress 100% and every step
\* COMPLETED, unless stop() is called or a step() raises.
C35_BuildProgress == BuildBegun ~> (BuildSucceeded \/ BuildStopped \/ BuildStepRaised)

\* C35 witness: a two-step plan whose second step depends on the first, run
\* with budget 6, has succeeded after 5 + 1 calls of step().
C35_Witness ==
    /\ BuildSucceeded
    /\ WellFormedPlan
    /\ Len(plan) = 2
    /\ plan[2].dependencies = <<plan[1].step_id>>
    /\ build_max_steps = MaxIterationsPerStep + 1
    /\ total_agent_steps = MaxIterationsPerStep + 1
    /\ handled[1].calls = MaxIterationsPerStep
    /\ handled[2].calls = 1

\* The entries of steps_progress that get_in_progress_step can return.
InProgressIds ==
    {id \in DOMAIN steps_progress : steps_progress[id].status = IN_PROGRESS}

\* C36: during a Build run at most one plan step is IN_PROGRESS at any time
\* (none between two steps of the plan, the started one while its
\* iterations run), and when the run has returned without an error result
\* no step is IN_PROGRESS.
C36_OneInProgress ==
    /\ Cardinality(InProgressIds) <= 1
    /\ build_pc = "loop" => InProgressIds = {}
    /\ build_pc = "exec" => InProgressIds = {CurrentStep.step_id}
    /\ (build_pc = "done" /\ ~build_result[1].error) => InProgressIds = {}

\* C36 witness: the third step of a three-step plan is under way and the two
\* before it are COMPLETED.
C36_Witness ==
    /\ build_pc = "exec"
    /\ Len(plan) = 3
    /\ UniqueIds
    /\ build_index = 3
    /\ handled[3].calls >= 1
    /\ IsCompleted(plan[1].step_id)
    /\ IsCompleted(plan[2].step_id)
    /\ InProgressIds = {plan[3].step_id}

\* A worker of this step() was submitted and has not finished: its tool call
\* may be under way.
WorkerOutstanding == \E i \in DOMAIN futures : futures[i].state = "pending"

\* A tool call is made in this step of the run.
ToolCallMade == Len(tool_calls') > Len(tool_calls)

\* C37: within one step() a tool call is made only after the assistant
\* message of that step() was appended (it is the newest message then) and
\* before the observation message; a worker is outstanding only inside
\* _execute_parallel, so none is when the observation is appended, when
\* step() returns or raises, or when the next step() begins, and memory is
\* not changed while one is.
C37_ToolCallsInsideStep ==
    /\ [](WorkerOutstanding => pc = "parallel")
    /\ [](pc \in {"sequential", "parallel"} =>
             /\ appended[Len(appended)].role = "assistant"
             /\ AppendedWithRole("assistant") = steps_done)
    /\ [][ToolCallMade =>
             /\ pc \in {"sequential", "parallel"}
             /\ memory' = memory
             /\ steps_done' = steps_done]_vars
    /\ [][memory' # memory =>
             /\ ~WorkerOutstanding
             \* the workers of a step() are submitted after its assistant message
             /\ WorkerOutstanding' => (pc = "ask" /\ AppendsOne("assistant"))]_vars
    /\ [][(pc = "observe" /\ memory' # memory) => Len(tool_calls') = Len(tool_calls)]_vars

\* C37 witness: a step() that dispatched MaxParallelTools workers has
\* appended its observation and returned; every worker had finished.
C37_Witness ==
    /\ pc = "loop"
    /\ step_ret = "true"
    /\ dispatch = "parallel"
    /\ steps_done = 2
    /\ Len(futures) = MaxParallelTools
    /\ Len(tool_calls) = MaxParallelTools
    /\ \A i \in DOMAIN futures : futures[i].state = "collected"
    /\ appended[Len(appended)].role = "user"

\* The segments a dispatcher can have for an action: f"[{action.name}]: ..."
\* with what tools.call returned for that action.
SegmentsOf(action) ==
    {Segment(action, call(action.name, action.parameters, b)) : b \in ToolBehaviours}

\* This step() dispatched a list that both dispatchers take whole, and the
\* dispatch is over.
EquivalenceCase ==
    /\ dispatch # "none"
    /\ Len(actions) >= 2
    /\ Len(actions) <= MaxParallelTools
    /\ pc \in {"observe", "loop", "raised"}

\* C38: on a list of n actions, 2 <= n <= the worker cap, _execute_parallel
\* and _execute_sequential return the same list under every interleaving of
\* the workers: n segments, the i-th one the segment of the i-th action
\* with the result of its tool call.
C38_DispatchEquivalent ==
    EquivalenceCase =>
        /\ Len(observations) = Len(actions)
        /\ \A i \in 1..Len(observations) : observations[i] \in SegmentsOf(actions[i])

\* The response parses to a JSON object (with a complexity that is absent or
\* a level) whose needs_planning field is false.
ParsedFalse(r) ==
    /\ StructuredClassification(r)
    /\ r.payload.needs_planning = "false"

\* Structured parsing fails and the text has a simple-task keyword and no
\* complex-task keyword.
FallbackSimple(r) ==
    /\ r.kind = "text"
    /\ ~StructuredClassification(r)
    /\ TextContains(r, "simple")
    /\ ~TextContains(r, "complex")

\* C39: should_plan returns a decision whose needs_planning is false only
\* when the response parses to an object whose needs_planning field is false,
\* or when structured parsing fails and the text has a simple-task keyword
\* and no complex-task keyword; in every other case, a parsed object with no
\* needs_planning field included, the decision has needs_planning = true.
C39_DirectOnlyWhenToldOrSimple ==
    decider_out # <<>> =>
        /\ decider_out[1].raised = "none"
        /\ ~decider_out[1].value.needs_planning =>
              ParsedFalse(decider_response) \/ FallbackSimple(decider_response)
        /\ (StructuredClassification(decider_response)
            /\ decider_response.payload.needs_planning = "absent") =>
              decider_out[1].value.needs_planning

\* C40: every Plan that generate returns has at least one step, whatever the
\* model answered: also for a response that parses as a JSON object with no
\* "steps" field or with an empty "steps" list.
C40_PlanHasAStep ==
    gen_out # <<>> =>
        /\ gen_out[1].raised = "none"
        /\ Len(gen_out[1].value.steps) >= 1

====
